---------------------------- MODULE Spec2Model ----------------------------
(***************************************************************************)
(* Model of ns3::HybridSimulatorImpl (src/mpi/model/hybrid-simulator-impl.cc) *)
(* the coordinator of the hybrid (MPI ranks x worker threads) simulator:   *)
(* the topology partitioner, the migration of the staged events and the    *)
(* granted-time-window loop of Run().                                      *)
(*                                                                         *)
(* HybridSimulatorImpl is modelled from its source.  The classes it calls  *)
(* whose code is not part of the sources at hand (MtpInterface, the        *)
(* LogicalProcess and GrantedTimeWindowMpiInterface) are modelled from the *)
(* design document, sections 4.2, 4.3 and 4.6; those definitions carry the *)
(* tag "design document" in their comment.                                 *)
(*                                                                         *)
(* Node ids are 1..NumNodes here (NodeList numbers them from 0).           *)
(***************************************************************************)
EXTENDS Integers, Sequences, FiniteSets, TLC

(***************************************************************************)
(* Bounds of the model.                                                    *)
(***************************************************************************)
MaxTime == 4        \* payloads schedule no event later than this tick
MaxEvents == 4      \* events ever created in one run (staged ones included)
MaxTtl == 2         \* generations of events a staged event can start

(***************************************************************************)
(* Program constants.                                                      *)
(***************************************************************************)
LpShift == 16                 \* localSystemId << 16, GetSystemId() >> 16
NoContext == 0                \* Simulator::NO_CONTEXT (no node has id 0 here)
LpField == 2 ^ LpShift

(***************************************************************************)
(* A 32-bit system id is kept as its two 16-bit halves, [lp, rank]: lp the *)
(* high half (GetSystemId() >> 16), rank the low half.  The counters of    *)
(* the model (txCount, rxCount, localSystemId) stay far below 2^32.        *)
(***************************************************************************)
SystemIdOf(x) == [lp |-> (x \div LpField) % LpField, rank |-> x % LpField]

m_systemCount == 2            \* MpiInterface::GetSize() of the modelled run
m_maxThreads == 2             \* the MaxThreads attribute of the modelled run
Ranks == 0 .. (m_systemCount - 1)
Infinity == MaxTime + MaxTime + 2   \* stands for Time::Max() / 2

(***************************************************************************)
(* uint32_t helpers.                                                       *)
(***************************************************************************)
RECURSIVE BitOr(_, _)
BitOr(a, b) ==
    IF a = 0 THEN b
    ELSE IF b = 0 THEN a
    ELSE (IF (a % 2 = 1) \/ (b % 2 = 1) THEN 1 ELSE 0)
         + 2 * BitOr(a \div 2, b \div 2)

Shr(x, k) == x \div (2 ^ k)

Min2(a, b) == IF a < b THEN a ELSE b


(***************************************************************************)
(* Topology: what Partition reads through the node API.  A topology is a   *)
(* record [rank, chans]: rank[n] is the system id node n was created with  *)
(* (its MPI rank), chans a sequence of channels [p2p, delay, ends], ends   *)
(* being the nodes of the channel's devices in GetDevice(j) order.  Each   *)
(* node has one device per channel it is attached to, in channel order,    *)
(* and last a device without a channel (the loopback device).              *)
(***************************************************************************)
NumNodes(T) == Len(T.rank)
NodesOf(T) == 1 .. NumNodes(T)
Idx(k) == [i \in 1 .. k |-> i]

\* the channel of every device of node n, 0 for a device without channel
Devices(T, n) ==
    SelectSeq(Idx(Len(T.chans)),
              LAMBDA c : \E j \in 1 .. Len(T.chans[c].ends) : T.chans[c].ends[j] = n)
    \o << 0 >>

RECURSIVE InsertSorted(_, _)
InsertSorted(s, x) ==
    IF s = << >> THEN << x >>
    ELSE IF x < Head(s) THEN << x >> \o s
    ELSE << Head(s) >> \o InsertSorted(Tail(s), x)

\* std::sort of the delays, from element i on
RECURSIVE SortFrom(_, _)
SortFrom(s, i) ==
    IF i > Len(s) THEN << >>
    ELSE CHOOSE t \in { InsertSorted(rest, s[i]) : rest \in {SortFrom(s, i + 1)} } : TRUE

SortDelays(s) == SortFrom(s, 1)

\* the concatenation of the sequences ss[i], ss[i + 1], ...
RECURSIVE FlattenFrom(_, _)
FlattenFrom(ss, i) == IF i > Len(ss) THEN << >> ELSE ss[i] \o FlattenFrom(ss, i + 1)

Flatten(ss) == FlattenFrom(ss, 1)

(***************************************************************************)
(* Partition, lines 377-418: the delays collected when m_minLookahead is   *)
(* 0: one entry per point-to-point device of every node whose system id is *)
(* m_myId.                                                                 *)
(***************************************************************************)
DeviceDelays(T, sys, n) ==
    LET devs == Devices(T, n)
        keep == SelectSeq(devs, LAMBDA c : c # 0 /\ T.chans[c].p2p)
    IN  [i \in 1 .. Len(keep) |-> T.chans[keep[i]].delay]

CollectDelays(T, sys, myId) ==
    Flatten([n \in 1 .. NumNodes(T) |->
                IF sys[n] = SystemIdOf(myId) THEN DeviceDelays(T, sys, n) ELSE << >>])

\* lines 407-417: the median of the sorted delays, 0 if there is none
MedianOfSorted(d) ==
    LET k == Len(d)
    IN  IF k = 0 THEN 0
        ELSE IF k % 2 = 1 THEN d[(k \div 2) + 1]
        ELSE (d[k \div 2] + d[(k \div 2) + 1]) \div 2

MedianOf(delays) == CHOOSE m \in { MedianOfSorted(d) : d \in {SortDelays(delays)} } : TRUE

PartitionLookahead(T, sys, myId, ml) ==
    IF ml = 0 THEN MedianOf(CollectDelays(T, sys, myId)) ELSE ml

(***************************************************************************)
(* Partition, lines 420-471: the breadth-first labelling.  st is the       *)
(* record [sys, visited, lsid] of the node system ids, the visited array   *)
(* and localSystemId.                                                      *)
(***************************************************************************)
\* line 435: localSystemId << 16 | m_myId
ComposeSystemId(lsid, myId) ==
    [lp |-> BitOr(lsid % LpField, Shr(myId, LpShift) % LpField), rank |-> myId % LpField]

\* line 463 without the test of the system id
PushTestNotVisited(T, st, node, remote, myId) == ~ st.visited[remote]

\* line 463: the test that guards q.push(remote); node is the node just
\* popped and relabelled, remote the device's node
PushTest(T, st, node, remote, myId) ==
    (~ st.visited[remote]) /\ st.sys[node] = SystemIdOf(myId)

\* lines 447-457: the channel of a device is a partition cut
IsCut(T, c, ml) == T.chans[c].p2p /\ T.chans[c].delay >= ml

\* lines 439-468: the nodes pushed while scanning the devices of node
Pushes(T, st, node, myId, ml) ==
    LET devs == Devices(T, node)
        ofDev(c) ==
            IF c = 0 THEN << >>
            ELSE IF IsCut(T, c, ml) THEN << >>
            ELSE SelectSeq(T.chans[c].ends,
                           LAMBDA remote : PushTest(T, st, node, remote, myId))
    IN  Flatten([i \in 1 .. Len(devs) |-> ofDev(devs[i])])

RECURSIVE BfsLoop(_, _, _, _, _)
BfsLoop(T, st, q, myId, ml) ==
    IF q = << >> THEN st
    ELSE LET node == Head(q)
             st1 == [st EXCEPT !.visited[node] = TRUE,
                               !.sys[node] = ComposeSystemId(st.lsid, myId)]
         IN  BfsLoop(T, st1, Tail(q) \o Pushes(T, st1, node, myId, ml), myId, ml)

RECURSIVE BfsNodes(_, _, _, _, _)
BfsNodes(T, st, n, myId, ml) ==
    IF n > NumNodes(T) THEN st
    ELSE IF (~ st.visited[n]) /\ st.sys[n] = SystemIdOf(myId)
         THEN BfsNodes(T,
                       BfsLoop(T, [st EXCEPT !.lsid = st.lsid + 1],
                               << n >>, myId, ml),
                       n + 1, myId, ml)
         ELSE BfsNodes(T, st, n + 1, myId, ml)

\* the labelling Partition leaves: [sys, visited, lsid].  The node list of a
\* topology T starts with T.ahead nodes of the rank that have no device and
\* are not tracked one by one: the loop of line 421 gives each of them an
\* LP of its own (lines 424-427 and 435, nothing to scan at line 439), so
\* the first tracked node is reached with localSystemId = T.ahead.
PartitionLabels(T, sys, myId, ml) ==
    BfsNodes(T, [sys |-> sys, visited |-> [n \in NodesOf(T) |-> FALSE],
                 lsid |-> T.ahead],
             1, myId, ml)


(***************************************************************************)
(* State.  Every rank is one OS process with its own copy of the node      *)
(* list, its own LP runtime and its own HybridSimulatorImpl.               *)
(***************************************************************************)
VARIABLES
    topo,             \* the topology the script built (the same on every rank)
    sysId,            \* sysId[r][n]: Node::GetSystemId() of node n on rank r
    m_minLookahead,   \* m_minLookahead[r]
    numLPs,           \* numLPs[r]: LPs 1..numLPs[r] exist besides LP 0
    sched,            \* sched[r][l]: the scheduler of LP l, in (ts, sequence) order
    inbox,            \* inbox[r][l]: events other LPs pushed for LP l, each with
                      \* the pushing LP and its clock at the push (history)
    now,              \* now[r][l]: the clock of LP l
    eventCount,       \* eventCount[r][l]
    lpc,              \* lpc[r][l]: where LP l is in the current round
    pc,               \* pc[r]: where the coordinator of rank r is in Run()
    transfer,         \* transfer[r]: eventsToBeTransferred of Partition
    rxCount,          \* GrantedTimeWindowMpiInterface::GetRxCount() of rank r
    txCount,          \* GrantedTimeWindowMpiInterface::GetTxCount() of rank r
    net,              \* net[r]: messages sent to rank r, not yet arrived
    avail,            \* avail[r]: messages arrived at rank r, not yet received
    m_pLBTS,          \* m_pLBTS[r]: the LBTS array of rank r
    m_smallestTime,   \* m_smallestTime[r]
    g_smallestTime,   \* the runtime's smallest time / granted time of rank r
    m_globalFinished, \* m_globalFinished[r]
    totRx,            \* the local totRx of Run on rank r
    totTx,            \* the local totTx of Run on rank r
    nextId,           \* history: the id the next created event gets
    invoked,          \* history: invoked[i], the ranks that invoked event i, in order
    iterExec,         \* history: iterExec[r], events rank r invoked since the last all-gather
    grants,           \* history: grants[r], the grants of the last two iterations, -1 if none
    snap,             \* history: what held when the last all-gather completed
    stopReq,          \* stopReq[r][l]: the stop flag of LP l
    cancelled,        \* the ids of the events whose cancelled flag is set
    m_destroyEvents,  \* m_destroyEvents[r]: the destroy queue, the ids in order
    workQ,            \* workQ[r]: the LPs of the round no worker has taken yet
    holder,           \* holder[r][w]: the LP that worker w executes, NoLp if none
    attrMinLookahead, \* history: the MinLookahead attribute the run was given
    staged,           \* history: staged[r], the events the script scheduled before Run
    migLog,           \* history: migLog[r], the events Partition invoked, in order
    destroyLog,       \* history: destroyLog[r], the destroy events invoked, in order
    destroyReg,       \* history: destroyReg[r], the destroy events in ScheduleDestroy order
    removed,          \* history: the ids of the events Remove took out of a queue
    taken,            \* history: taken[r][l], how often a worker took LP l this round
    access,           \* access[r][w]: the call of worker w that is inside m_destroyEvents
    corrupt,          \* corrupt[r]: a data race left the std::list m_destroyEvents unsound
    window,           \* the window of a round the LogicalProcess code implements
    fanout            \* the LPs of a round the MtpInterface code dispatches

vars == << topo, sysId, m_minLookahead, numLPs, sched, inbox, now, eventCount,
           lpc, pc, transfer, rxCount, txCount, net, avail, m_pLBTS,
           m_smallestTime, g_smallestTime, m_globalFinished, totRx, totTx,
           nextId, invoked, iterExec, grants, snap, stopReq, cancelled,
           m_destroyEvents, workQ, holder, attrMinLookahead, staged, migLog,
           destroyLog, destroyReg, removed, taken, access, corrupt,
           window, fanout >>

\* the state of Stop, Cancel and Destroy, of the worker pool, and the
\* history kept for them
destroyvars == << cancelled, m_destroyEvents, destroyLog, destroyReg, removed >>
stopvars == << stopReq, destroyvars >>
poolvars == << workQ, holder, taken, access, corrupt >>
\* what is fixed for the whole run
fixedvars == << attrMinLookahead, window, fanout >>
migvars == << fixedvars, staged, migLog >>

\* the worker threads a rank can have, and the mark of an idle worker
Workers == 1 .. m_maxThreads
NoLp == -1

MaxNodes == 4       \* nodes of the largest topology
LpIds == 0 .. MaxNodes
\* the ids of the events of the payloads, and after them the id of the event
\* that Stop(delay) schedules on rank r
EventIds == 1 .. (MaxEvents + m_systemCount)
StopId(r) == MaxEvents + 1 + r

(***************************************************************************)
(* Per-LP scheduler (design document 4.1): a queue in (timestamp,          *)
(* sequence) order; the sequence number grows with every insert, so an     *)
(* event goes behind the events of the same timestamp.                     *)
(***************************************************************************)
RECURSIVE SchedInsert(_, _)
SchedInsert(q, ev) ==
    IF q = << >> THEN << ev >>
    ELSE IF ev.ts < Head(q).ts THEN << ev >> \o q
    ELSE << Head(q) >> \o SchedInsert(Tail(q), ev)

RECURSIVE SchedInsertAll(_, _)
SchedInsertAll(q, evs) ==
    IF evs = << >> THEN q ELSE SchedInsertAll(SchedInsert(q, Head(evs)), Tail(evs))

\* MtpInterface::GetSize(): LP 0 and LPs 1..numLPs (the constructor enables
\* 0 LPs and ScheduleWithContext takes GetSize() == 1 for that stage)
GetSize(r) == numLPs[r] + 1

(***************************************************************************)
(* LogicalProcess::Schedule and ScheduleWithContext (design document 4.2). *)
(* S is the record [sched, inbox, fatal] of one rank's LP queues while a   *)
(* handler runs; tnow is the clock of the calling LP.                      *)
(***************************************************************************)
LP_Schedule(S, self, tnow, delay, ev) ==
    [S EXCEPT !.sched[self] = SchedInsert(@, [ev EXCEPT !.ts = tnow + delay])]

\* the lookahead test of scheduleWithContext for a target other than self
LookaheadOk(delay, ml) == delay >= ml

LP_ScheduleWithContext(S, self, remote, tnow, ml, delay, ev) ==
    IF remote = self
    THEN LP_Schedule(S, self, tnow, delay, ev)
    ELSE IF ~ LookaheadOk(delay, ml)
         THEN [S EXCEPT !.fatal = TRUE]
         ELSE [S EXCEPT !.inbox[remote] =
                    Append(@, [ev |-> [ev EXCEPT !.ts = tnow + delay],
                               from |-> self, sentAt |-> tnow])]

(***************************************************************************)
(* HybridSimulatorImpl::Schedule, lines 138-143, and ScheduleWithContext,  *)
(* lines 145-162, called on rank r by the thread whose LP is self.         *)
(***************************************************************************)
HSI_Schedule(r, S, self, tnow, delay, ev) == LP_Schedule(S, self, tnow, delay, ev)

\* line 159: the LP of the context node
ContextLp(r, context) == sysId[r][context].lp

\* line 160 with the call made on the LP of the context node instead of the
\* calling thread's LP
HSI_ScheduleWithContextOnRemote(r, S, self, tnow, context, delay, ev) ==
    IF GetSize(r) = 1
    THEN LP_ScheduleWithContext(S, self, self, tnow, m_minLookahead[r], delay, ev)
    ELSE LET remote == ContextLp(r, context)
         IN  IF remote \notin LpIds
             THEN [S EXCEPT !.fatal = TRUE]
             ELSE LP_ScheduleWithContext(S, remote, remote, now[r][remote],
                                         m_minLookahead[r], delay, ev)

HSI_ScheduleWithContext(r, S, self, tnow, context, delay, ev) ==
    IF GetSize(r) = 1
    THEN LP_ScheduleWithContext(S, self, self, tnow, m_minLookahead[r], delay, ev)
    ELSE LET remote == ContextLp(r, context)
         IN  IF remote \notin LpIds
             THEN [S EXCEPT !.fatal = TRUE]
             ELSE LP_ScheduleWithContext(S, self, remote, tnow, m_minLookahead[r],
                                         delay, ev)


(***************************************************************************)
(* What an event does when it is invoked.  The payloads belong to the      *)
(* node models and applications (as the on-off clients and the point-to-   *)
(* point devices of examples/simple-mtp.cc): an invoked event does         *)
(* nothing, or schedules one event on its own LP, or transmits over a      *)
(* channel of its node, which schedules a receive event on the peer node,  *)
(* with the channel's delay: by ScheduleWithContext when the peer is on    *)
(* the same rank, by an MPI message otherwise.                             *)
(***************************************************************************)
LocalDelays == {0, 1}

Peers(n) ==
    { x \in [to : NodesOf(topo), delay : 0 .. MaxTime] :
        \E c \in 1 .. Len(topo.chans) :
            /\ \E j \in 1 .. Len(topo.chans[c].ends) : topo.chans[c].ends[j] = n
            /\ \E j \in 1 .. Len(topo.chans[c].ends) : topo.chans[c].ends[j] = x.to
            /\ x.to # n
            /\ x.delay = topo.chans[c].delay }

Requests(ev) ==
    {[op |-> "none", to |-> 0, delay |-> 0]}
    \cup (IF ev.ttl > 0 /\ nextId <= MaxEvents
          THEN {[op |-> "schedule", to |-> 0, delay |-> d] :
                    d \in {d \in LocalDelays : ev.ts + d <= MaxTime}}
               \cup (IF ev.ctx = NoContext THEN {}
                     ELSE {[op |-> "tx", to |-> x.to, delay |-> x.delay] :
                               x \in {x \in Peers(ev.ctx) : ev.ts + x.delay <= MaxTime}})
          ELSE {})

Created(req) == IF req.op = "none" THEN 0 ELSE 1

\* the queues of rank r after the payload of ev ran on LP self at time tnow
Payload(r, S, self, tnow, ev, req) ==
    LET child == [ts |-> 0, ctx |-> ev.ctx, ttl |-> ev.ttl - 1, id |-> nextId,
                  stop |-> FALSE]
    IN  IF req.op = "schedule"
        THEN HSI_Schedule(r, S, self, tnow, req.delay, child)
        ELSE IF req.op = "tx"
        THEN IF topo.rank[req.to] = r
             THEN HSI_ScheduleWithContext(r, S, self, tnow, req.to, req.delay,
                                          [child EXCEPT !.ctx = req.to])
             ELSE [S EXCEPT !.out = Append(@, [dst |-> topo.rank[req.to],
                                               node |-> req.to,
                                               ts |-> tnow + req.delay,
                                               ttl |-> ev.ttl - 1,
                                               id |-> nextId])]
        ELSE S

\* the queues of rank r as a handler finds them
Queues(r) == [sched |-> sched[r], inbox |-> inbox[r], fatal |-> FALSE, out |-> << >>]

\* the messages of out that go to rank d, in sending order
OutTo(out, d) == SelectSeq(out, LAMBDA m : m.dst = d)

(***************************************************************************)
(* MtpInterface (design document 4.3).                                     *)
(***************************************************************************)
LocalLps(r) == 0 .. numLPs[r]

\* the timestamp of the next event of a scheduler, +infinity if it is empty
NextTs(q) == IF q = << >> THEN Infinity ELSE Head(q).ts

RECURSIVE MinOver(_, _, _)
MinOver(S, l, n) ==
    IF l > n THEN Infinity ELSE Min2(NextTs(S.sched[l]), MinOver(S, l + 1, n))

\* calculateSmallestTime(): min over all local LPs of the next timestamp
CalculateSmallestTime(r, S) == MinOver(S, 0, numLPs[r])

\* LogicalProcess::isFinished(): scheduler empty and inbox empty
LP_IsFinished(S, l) == S.sched[l] = << >> /\ S.inbox[l] = << >>

\* MtpInterface::isFinished() (design document 4.3): AND over all local LPs
\* of lp.isFinished(); the stop flag is no part of it
MTP_isFinished(r, S) == \A l \in LocalLps(r) : LP_IsFinished(S, l)

\* lines 115-119: IsLocalFinished returns MtpInterface::isFinished()
IsLocalFinished(r, S) == MTP_isFinished(r, S)

\* LogicalProcess::ProcessOneRound and MtpInterface::ProcessOneRound are not
\* in the sources, and the design document describes them in two ways.
\*   window "below": an LP removes events "while the next event's timestamp
\*     < grant" (2, 4.2, 4.3 and the glossary);
\*   window "upto": an event whose timestamp is the grant is executed in the
\*     round (8: S1 expects the events at 1, 2, 3 of a single LP executed,
\*     S6 expects the event at t = G executed once the grant is G).
\*   fanout "next": a round is "the set of LPs whose next event timestamp
\*     is < grant", fanned out to the workers (4.3);
\*   fanout "all": every LP drains its inbox at the start of the round
\*     (4.2 "drain own inbox, then ...", 4.3 rationale; 8, S2 expects the LP
\*     of B, whose scheduler is empty, to execute the event A pushed).
\* Which of them the missing code implements is fixed for a run and left
\* open here: Init draws window from {"below", "upto"} and fanout from
\* {"next", "all"}, so every combination is explored.

\* the events an LP executes in a round of grant g
Eligible(ts, g) == IF window = "below" THEN ts < g ELSE ts <= g

\* LP l of rank r, with the queues S, is dispatched in a round of grant g
Fanned(S, l, g) ==
    fanout = "all" \/ (S.sched[l] # << >> /\ Eligible(Head(S.sched[l]).ts, g))


(***************************************************************************)
(* The runs that are explored: the topologies, the MinLookahead attribute  *)
(* and the events the script scheduled before Run (they wait in LP 0).     *)
(***************************************************************************)
P2p(d, a, b) == [p2p |-> TRUE, delay |-> d, ends |-> << a, b >>]
Bus(d, nodes) == [p2p |-> FALSE, delay |-> d, ends |-> nodes]

\* n1 - n2 on rank 0, n3 on rank 1, two point-to-point links
Chain(d12, d23) == [ahead |-> 0, rank |-> << 0, 0, 1 >>, chans |-> << P2p(d12, 1, 2), P2p(d23, 2, 3) >>]

Topologies == { Chain(1, 2), Chain(2, 1) }

Lookaheads == {0, 1, 2}

MaxStaged == 2      \* events staged before Run

\* the events a script may stage: [rank, ts, ctx]
StagedPool ==
    << [rank |-> 0, ts |-> 0, ctx |-> 1],
       [rank |-> 0, ts |-> 1, ctx |-> 1],
       [rank |-> 0, ts |-> 1, ctx |-> 2],
       [rank |-> 0, ts |-> 2, ctx |-> NoContext],
       [rank |-> 1, ts |-> 1, ctx |-> 3],
       [rank |-> 1, ts |-> 0, ctx |-> NoContext] >>

StagedChoices == { c \in SUBSET (1 .. Len(StagedPool)) : Cardinality(c) <= MaxStaged }

\* the id of pool entry i among the chosen entries c: its position in c
StagedId(c, i) == Cardinality({ j \in c : j <= i })

\* the scheduler of LP 0 of rank r when the entries c were staged
StagedSched(c, r) ==
    LET mine == SelectSeq(Idx(Len(StagedPool)),
                          LAMBDA i : i \in c /\ StagedPool[i].rank = r)
    IN  SchedInsertAll(<< >>,
            [k \in 1 .. Len(mine) |->
                [ts |-> StagedPool[mine[k]].ts, ctx |-> StagedPool[mine[k]].ctx,
                 ttl |-> MaxTtl, id |-> StagedId(c, mine[k]), stop |-> FALSE]])

EmptyLbts == [rx |-> 0, tx |-> 0, id |-> 0, finished |-> FALSE, smallest |-> 0]

InitFrom(T, ml, c, extra) ==
    /\ topo = T
    /\ sysId = [r \in Ranks |-> [n \in NodesOf(T) |-> SystemIdOf(T.rank[n])]]
    /\ m_minLookahead = [r \in Ranks |-> ml]
    /\ numLPs = [r \in Ranks |-> 0]
    /\ sched = [r \in Ranks |-> [l \in LpIds |->
                    IF l = 0 THEN SchedInsertAll(StagedSched(c, r), extra[r])
                    ELSE << >>]]
    /\ inbox = [r \in Ranks |-> [l \in LpIds |-> << >>]]
    /\ now = [r \in Ranks |-> [l \in LpIds |-> 0]]
    /\ eventCount = [r \in Ranks |-> [l \in LpIds |-> 0]]
    /\ lpc = [r \in Ranks |-> [l \in LpIds |-> "idle"]]
    /\ pc = [r \in Ranks |-> "start"]
    /\ transfer = [r \in Ranks |-> << >>]
    /\ rxCount = [r \in Ranks |-> 0]
    /\ txCount = [r \in Ranks |-> 0]
    /\ net = [r \in Ranks |-> << >>]
    /\ avail = [r \in Ranks |-> << >>]
    /\ m_pLBTS = [r \in Ranks |-> [i \in Ranks |-> EmptyLbts]]
    /\ m_smallestTime = [r \in Ranks |-> 0]
    /\ g_smallestTime = [r \in Ranks |-> 0]
    /\ m_globalFinished = [r \in Ranks |-> FALSE]
    /\ totRx = [r \in Ranks |-> 0]
    /\ totTx = [r \in Ranks |-> 0]
    /\ nextId = Cardinality(c) + 1
                + Cardinality({ i \in 1 .. MaxEvents :
                                  \E r \in Ranks : \E k \in 1 .. Len(extra[r]) :
                                      extra[r][k].id = i })
    /\ invoked = [i \in EventIds |-> << >>]
    /\ iterExec = [r \in Ranks |-> 0]
    /\ grants = [r \in Ranks |-> [prev |-> -1, cur |-> -1]]
    /\ snap = [match |-> FALSE, pend |-> FALSE]
    /\ stopReq = [r \in Ranks |-> [l \in LpIds |-> FALSE]]
    /\ cancelled = {}
    /\ m_destroyEvents = [r \in Ranks |-> << >>]
    /\ workQ = [r \in Ranks |-> << >>]
    /\ holder = [r \in Ranks |-> [w \in Workers |-> NoLp]]
    /\ attrMinLookahead = ml
    /\ staged = [r \in Ranks |-> SchedInsertAll(StagedSched(c, r), extra[r])]
    /\ migLog = [r \in Ranks |-> << >>]
    /\ destroyLog = [r \in Ranks |-> << >>]
    /\ destroyReg = [r \in Ranks |-> << >>]
    /\ removed = {}
    /\ taken = [r \in Ranks |-> [l \in LpIds |-> 0]]
    /\ access = [r \in Ranks |-> [w \in Workers |->
                    [op |-> "none", id |-> 0, in |-> FALSE, raced |-> FALSE, n |-> 0]]]
    /\ corrupt = [r \in Ranks |-> FALSE]
    /\ window \in {"below", "upto"}
    /\ fanout \in {"next", "all"}

\* the script stages the payload events c and nothing else
InitWith(T, ml, c) == InitFrom(T, ml, c, [r \in Ranks |-> << >>])

Init == \E T \in Topologies, ml \in Lookaheads, c \in StagedChoices : InitWith(T, ml, c)


(***************************************************************************)
(* Common parts of the actions.                                            *)
(***************************************************************************)
\* the queues S a handler of rank r leaves, its messages sent (txCount is
\* incremented per send, design document 4.6)
Commit(r, S, created) ==
    /\ sched' = [sched EXCEPT ![r] = S.sched]
    /\ inbox' = [inbox EXCEPT ![r] = S.inbox]
    /\ net' = [d \in Ranks |-> net[d] \o OutTo(S.out, d)]
    /\ txCount' = [txCount EXCEPT ![r] = @ + Len(S.out)]
    /\ nextId' = nextId + created

\* a fatal error ends the process
PcAfter(r, S, next) == pc' = [pc EXCEPT ![r] = IF S.fatal THEN "aborted" ELSE next]

\* LP l of rank r invokes ev: the clock moves to the event's timestamp and
\* the event is counted (design document 4.2)
Invoke(r, l, ev) ==
    /\ now' = [now EXCEPT ![r][l] = ev.ts]
    /\ eventCount' = [eventCount EXCEPT ![r][l] = @ + 1]
    /\ invoked' = [invoked EXCEPT ![ev.id] = Append(@, r)]

\* Stop(), lines 121-129, on rank r: LogicalProcess::Stop() on the LPs
\* 0 .. GetSize() - 1; the stop flags of the rank afterwards
HSI_Stop(r) == [l \in LpIds |-> stopReq[r][l] \/ l < GetSize(r)]

\* the stop flags after the payload of ev ran on rank r: the event that
\* Stop(delay) scheduled (line 135) calls Simulator::Stop()
StopAfter(r, ev) ==
    stopReq' = IF ev.stop THEN [stopReq EXCEPT ![r] = HSI_Stop(r)] ELSE stopReq

\* MtpInterface::EnableNew (design document 4.3): LPs 1 .. systemCount are
\* allocated and threadCount workers serve them; nothing else is checked
MTP_EnableNew(threadCount, systemCount) ==
    [threads |-> threadCount, systems |-> systemCount]

(***************************************************************************)
(* HybridSimulatorImpl::Partition, lines 368-498: the lookahead, the       *)
(* labelling, EnableNew and the draining of LP 0 into                      *)
(* eventsToBeTransferred.                                                  *)
(***************************************************************************)
Partition(r) ==
    /\ pc[r] = "start"
    /\ LET ml == PartitionLookahead(topo, sysId[r], r, m_minLookahead[r])
           lab == PartitionLabels(topo, sysId[r], r, ml)
           en == MTP_EnableNew(Min2(m_maxThreads, lab.lsid), lab.lsid)
       IN  /\ m_minLookahead' = [m_minLookahead EXCEPT ![r] = ml]
           /\ sysId' = [sysId EXCEPT ![r] = lab.sys]
           /\ numLPs' = [numLPs EXCEPT ![r] = en.systems]
    /\ transfer' = [transfer EXCEPT ![r] = sched[r][0]]
    /\ sched' = [sched EXCEPT ![r][0] = << >>]
    /\ pc' = [pc EXCEPT ![r] = "migrate"]
    /\ UNCHANGED << topo, inbox, now, eventCount, lpc, rxCount, txCount, net, avail,
                    m_pLBTS, m_smallestTime, g_smallestTime, m_globalFinished,
                    totRx, totTx, nextId, invoked, iterExec, grants, snap,
                    stopvars, poolvars, migvars >>

\* lines 475-476 and MtpInterface::EnableNew: the workers of rank r
ThreadCount(r) == MTP_EnableNew(Min2(m_maxThreads, numLPs[r]), numLPs[r]).threads

\* lines 509-511 with the public LP for every context
InvokeLpPublic(r, ev) == 0

\* lines 509-511: the LP that invokes a time-0 event
InvokeLp(r, ev) == IF ev.ctx = NoContext THEN 0 ELSE ContextLp(r, ev.ctx)

\* lines 514-521 with Schedule for every context
RescheduleOnPublic(r, S, ev) == HSI_Schedule(r, S, 0, now[r][0], ev.ts, ev)

\* lines 514-521: the queues after re-scheduling ev, which is done by the
\* coordinator thread, whose LP is LP 0
Reschedule(r, S, ev) ==
    IF ev.ctx = NoContext
    THEN HSI_Schedule(r, S, 0, now[r][0], ev.ts, ev)
    ELSE HSI_ScheduleWithContext(r, S, 0, now[r][0], ev.ctx, ev.ts, ev)

(***************************************************************************)
(* One iteration of the transfer loop, lines 501-522.  InvokeNow runs the  *)
(* payload on the spot (design document 4.2).                              *)
(***************************************************************************)
MigrateInvoke(r) ==
    /\ pc[r] = "migrate"
    /\ transfer[r] # << >>
    /\ Head(transfer[r]).ts = 0
    /\ Head(transfer[r]).id \notin cancelled
    /\ LET ev == Head(transfer[r])
           l == InvokeLp(r, ev)
       IN  /\ l \in LpIds
           /\ \E req \in Requests(ev) :
                LET S == Payload(r, Queues(r), l, ev.ts, ev, req)
                IN  /\ Commit(r, S, Created(req))
                    /\ PcAfter(r, S, "migrate")
           /\ Invoke(r, l, ev)
           /\ StopAfter(r, ev)
           /\ migLog' = [migLog EXCEPT ![r] = Append(@, [id |-> ev.id, lp |-> l])]
    /\ transfer' = [transfer EXCEPT ![r] = Tail(@)]
    /\ UNCHANGED << topo, sysId, m_minLookahead, numLPs, lpc, rxCount, avail,
                    m_pLBTS, m_smallestTime, g_smallestTime, m_globalFinished,
                    totRx, totTx, iterExec, grants, snap,
                    destroyvars, poolvars, fixedvars, staged >>

MigrateSchedule(r) ==
    /\ pc[r] = "migrate"
    /\ transfer[r] # << >>
    /\ Head(transfer[r]).ts # 0
    /\ LET S == Reschedule(r, Queues(r), Head(transfer[r]))
       IN  /\ Commit(r, S, 0)
           /\ PcAfter(r, S, "migrate")
    /\ transfer' = [transfer EXCEPT ![r] = Tail(@)]
    /\ UNCHANGED << topo, sysId, m_minLookahead, numLPs, now, eventCount, lpc,
                    rxCount, avail, m_pLBTS, m_smallestTime, g_smallestTime,
                    m_globalFinished, totRx, totTx, invoked, iterExec, grants, snap,
                    stopvars, poolvars, migvars >>

\* Run, lines 243-246: RunBefore, m_globalFinished = false, the loop is entered
RunBefore(r) ==
    /\ pc[r] = "migrate"
    /\ transfer[r] = << >>
    /\ m_globalFinished' = [m_globalFinished EXCEPT ![r] = FALSE]
    /\ pc' = [pc EXCEPT ![r] = "top"]
    /\ UNCHANGED << topo, sysId, m_minLookahead, numLPs, sched, inbox, now, eventCount,
                    lpc, transfer, rxCount, txCount, net, avail, m_pLBTS,
                    m_smallestTime, g_smallestTime, totRx, totTx, nextId, invoked,
                    iterExec, grants, snap,
                    stopvars, poolvars, migvars >>


(***************************************************************************)
(* The transport (design document 4.6).  A message sent to rank r is in    *)
(* flight in net[r] until it arrives; receiveMessages() takes the messages *)
(* that have arrived.                                                      *)
(***************************************************************************)
Deliver(r) ==
    /\ net[r] # << >>
    /\ net' = [net EXCEPT ![r] = Tail(@)]
    /\ avail' = [avail EXCEPT ![r] = Append(@, Head(net[r]))]
    /\ UNCHANGED << topo, sysId, m_minLookahead, numLPs, sched, inbox, now, eventCount,
                    lpc, pc, transfer, rxCount, txCount, m_pLBTS, m_smallestTime,
                    g_smallestTime, m_globalFinished, totRx, totTx, nextId, invoked,
                    iterExec, grants, snap,
                    stopvars, poolvars, migvars >>

\* receiveMessages(): every arrived message becomes an event scheduled with
\* ScheduleWithContext on the LP of its node, at its receive time, by the
\* coordinator thread (whose LP is LP 0)
RECURSIVE ReceiveMessages(_, _, _)
ReceiveMessages(r, S, msgs) ==
    IF msgs = << >> \/ S.fatal THEN S
    ELSE LET m == Head(msgs)
             ev == [ts |-> m.ts, ctx |-> m.node, ttl |-> m.ttl, id |-> m.id,
                    stop |-> FALSE]
         IN  ReceiveMessages(r,
                 HSI_ScheduleWithContext(r, S, 0, now[r][0], m.node,
                                         m.ts - now[r][0], ev),
                 Tail(msgs))

(***************************************************************************)
(* Run, lines 248-256: the head of an iteration up to the all-gather.      *)
(***************************************************************************)
RunTop(r) ==
    /\ pc[r] = "top"
    /\ LET S == ReceiveMessages(r, Queues(r), avail[r])
           rx == rxCount[r] + Len(avail[r])
           smallest == CalculateSmallestTime(r, S)
           lMsg == [rx |-> rx, tx |-> txCount[r], id |-> r,
                    finished |-> IsLocalFinished(r, S), smallest |-> smallest]
       IN  /\ sched' = [sched EXCEPT ![r] = S.sched]
           /\ inbox' = [inbox EXCEPT ![r] = S.inbox]
           /\ rxCount' = [rxCount EXCEPT ![r] = rx]
           /\ g_smallestTime' = [g_smallestTime EXCEPT ![r] = smallest]
           /\ m_pLBTS' = [m_pLBTS EXCEPT ![r][r] = lMsg]
           /\ PcAfter(r, S, "gather")
    /\ avail' = [avail EXCEPT ![r] = << >>]
    /\ UNCHANGED << topo, sysId, m_minLookahead, numLPs, now, eventCount, lpc,
                    transfer, txCount, net, m_smallestTime, m_globalFinished,
                    totRx, totTx, nextId, invoked, iterExec, grants, snap,
                    stopvars, poolvars, migvars >>

(***************************************************************************)
(* Run, lines 264-288: what a rank derives from the gathered array A.      *)
(***************************************************************************)
RECURSIVE FoldSmallest(_, _, _)
FoldSmallest(A, i, acc) ==
    IF i >= m_systemCount THEN acc
    ELSE FoldSmallest(A, i + 1, IF A[i].smallest < acc THEN A[i].smallest ELSE acc)

\* a fold that keeps the larger value: the comparison of line 276 reversed
RECURSIVE FoldLargest(_, _, _)
FoldLargest(A, i, acc) ==
    IF i >= m_systemCount THEN acc
    ELSE FoldLargest(A, i + 1, IF A[i].smallest > acc THEN A[i].smallest ELSE acc)

SmallestOfReversed(A) == FoldLargest(A, 1, A[0].smallest)

\* lines 264, 274-279: m_smallestTime
SmallestOf(A) == FoldSmallest(A, 1, A[0].smallest)

RECURSIVE FoldRx(_, _, _)
FoldRx(A, i, acc) ==
    IF i >= m_systemCount THEN acc ELSE FoldRx(A, i + 1, acc + A[i].rx)

RECURSIVE FoldTx(_, _, _)
FoldTx(A, i, acc) ==
    IF i >= m_systemCount THEN acc ELSE FoldTx(A, i + 1, acc + A[i].tx)

\* lines 269-270, 280-281: totRx and totTx
TotRxOf(A) == FoldRx(A, 1, A[0].rx)
TotTxOf(A) == FoldTx(A, 1, A[0].tx)

RECURSIVE FoldFinished(_, _, _)
FoldFinished(A, i, acc) ==
    IF i >= m_systemCount THEN acc ELSE FoldFinished(A, i + 1, acc /\ A[i].finished)

\* the halting condition without line 288
GlobalFinishedOfNoTotals(A) == FoldFinished(A, 1, A[0].finished)

\* lines 271, 282, 288: m_globalFinished
GlobalFinishedOf(A) ==
    FoldFinished(A, 1, A[0].finished) /\ TotRxOf(A) = TotTxOf(A)

\* line 292 without the test of the totals
SafeToProcessNoTotals(r, A) == ~ IsLocalFinished(r, Queues(r))

\* line 292: a round is run
SafeToProcess(r, A) == TotRxOf(A) = TotTxOf(A) /\ ~ IsLocalFinished(r, Queues(r))

\* line 246: the loop condition, and RunAfter when the loop is left
AfterIteration(finished) == IF finished THEN "done" ELSE "top"


(***************************************************************************)
(* Reference values for the properties, computed from the contributions    *)
(* of all ranks without the loops of Run.                                  *)
(***************************************************************************)
RECURSIVE SetSum(_, _)
SetSum(f, D) ==
    IF D = {} THEN 0 ELSE LET x == CHOOSE x \in D : TRUE IN f[x] + SetSum(f, D \ {x})

SetMin(f, D) == CHOOSE v \in { f[x] : x \in D } : \A x \in D : v <= f[x]

SumRx(A) == SetSum([i \in Ranks |-> A[i].rx], Ranks)
SumTx(A) == SetSum([i \in Ranks |-> A[i].tx], Ranks)
MinSmallest(A) == SetMin([i \in Ranks |-> A[i].smallest], Ranks)
AllFinished(A) == \A i \in Ranks : A[i].finished

SeqSet(q) == { q[i] : i \in 1 .. Len(q) }

\* the events LP l of rank r holds: scheduled or waiting in its inbox
Pending(r, l) == SeqSet(sched[r][l]) \cup { x.ev : x \in SeqSet(inbox[r][l]) }

(***************************************************************************)
(* MPI_Allgather, lines 257-263: a blocking collective; it completes when  *)
(* every rank has entered it and leaves every rank the same array.         *)
(***************************************************************************)
\* a rank that receives nothing: its array keeps the other ranks' old slots
GatheredOwn(r) == [i \in Ranks |-> IF i = r THEN m_pLBTS[r][r] ELSE m_pLBTS[r][i]]

\* lines 257-263: the array MPI_Allgather leaves in m_pLBTS of rank r, slot
\* i is the lMsg rank i sent
Gathered(r) == [i \in Ranks |-> m_pLBTS[i][i]]

AllGather ==
    /\ \A r \in Ranks : pc[r] = "gather"
    /\ LET G == [i \in Ranks |-> m_pLBTS[i][i]]
       IN  /\ m_pLBTS' = [r \in Ranks |-> Gathered(r)]
           /\ snap' = [match |-> SumRx(G) = SumTx(G),
                       pend |-> \E r \in Ranks : \E l \in LocalLps(r) :
                                   \E ev \in Pending(r, l) :
                                       ev.ts < MinSmallest(G) + m_minLookahead[r]]
    /\ pc' = [r \in Ranks |-> "decide"]
    /\ iterExec' = [r \in Ranks |-> 0]
    /\ UNCHANGED << topo, sysId, m_minLookahead, numLPs, sched, inbox, now, eventCount,
                    lpc, transfer, rxCount, txCount, net, avail, m_smallestTime,
                    g_smallestTime, m_globalFinished, totRx, totTx, nextId, invoked,
                    grants,
                    stopvars, poolvars, migvars >>

\* the abort of a rank is detected by the ranks waiting in the collective
AbortDetected(r) ==
    /\ pc[r] = "gather"
    /\ \E q \in Ranks : pc[q] = "aborted"
    /\ pc' = [pc EXCEPT ![r] = "aborted"]
    /\ UNCHANGED << topo, sysId, m_minLookahead, numLPs, sched, inbox, now, eventCount,
                    lpc, transfer, rxCount, txCount, net, avail, m_pLBTS,
                    m_smallestTime, g_smallestTime, m_globalFinished, totRx, totTx,
                    nextId, invoked, iterExec, grants, snap,
                    stopvars, poolvars, migvars >>

(***************************************************************************)
(* Run, lines 264-295: the grant, the totals, the halting condition and    *)
(* the decision to run a round.                                            *)
(***************************************************************************)
DecideRound(r, first) ==
    /\ pc[r] = "decide"
    /\ LET A == m_pLBTS[r]
           round == SafeToProcess(r, A)
       IN  /\ m_smallestTime' = [m_smallestTime EXCEPT ![r] = SmallestOf(A)]
           /\ g_smallestTime' = [g_smallestTime EXCEPT ![r] = SmallestOf(A)]
           /\ grants' = [grants EXCEPT ![r] = [prev |-> @.cur, cur |-> SmallestOf(A)]]
           /\ totRx' = [totRx EXCEPT ![r] = TotRxOf(A)]
           /\ totTx' = [totTx EXCEPT ![r] = TotTxOf(A)]
           /\ m_globalFinished' = [m_globalFinished EXCEPT ![r] = GlobalFinishedOf(A)]
           /\ pc' = [pc EXCEPT ![r] =
                        IF round THEN "round" ELSE AfterIteration(GlobalFinishedOf(A))]
           /\ lpc' = [lpc EXCEPT ![r] =
                        [l \in LpIds |->
                            IF round /\ l \in LocalLps(r)
                                     /\ Fanned(Queues(r), l, SmallestOf(A))
                            THEN first ELSE "idle"]]
    /\ UNCHANGED << topo, sysId, m_minLookahead, numLPs, sched, inbox, now, eventCount,
                    transfer, rxCount, txCount, net, avail, m_pLBTS, nextId, invoked,
                    iterExec, snap,
                    stopvars, migvars >>

\* every dispatched LP of the round runs on a thread of its own
Decide(r) == DecideRound(r, "drain") /\ UNCHANGED poolvars

(***************************************************************************)
(* MtpInterface::ProcessOneRound (design document 4.2, 4.3): every         *)
(* dispatched LP (Fanned) drains its inbox and then executes its events    *)
(* inside the granted window (Eligible), the LPs running in parallel.      *)
(***************************************************************************)
LpcAfter(q, g) == IF q # << >> /\ Eligible(Head(q).ts, g) THEN "run" ELSE "idle"

LPDrain(r, l) ==
    /\ pc[r] = "round"
    /\ lpc[r][l] = "drain"
    /\ LET q == SchedInsertAll(sched[r][l],
                                [i \in 1 .. Len(inbox[r][l]) |-> inbox[r][l][i].ev])
       IN  /\ sched' = [sched EXCEPT ![r][l] = q]
           /\ lpc' = [lpc EXCEPT ![r][l] = LpcAfter(q, g_smallestTime[r])]
    /\ inbox' = [inbox EXCEPT ![r][l] = << >>]
    /\ UNCHANGED << topo, sysId, m_minLookahead, numLPs, now, eventCount, pc, transfer,
                    rxCount, txCount, net, avail, m_pLBTS, m_smallestTime,
                    g_smallestTime, m_globalFinished, totRx, totTx, nextId, invoked,
                    iterExec, grants, snap,
                    stopvars, poolvars, migvars >>

LPExec(r, l) ==
    /\ pc[r] = "round"
    /\ lpc[r][l] = "run"
    /\ ~ stopReq[r][l]
    /\ \A w \in Workers : holder[r][w] = l => ~ access[r][w].in
    /\ Head(sched[r][l]).id \notin cancelled
    /\ LET ev == Head(sched[r][l])
           S0 == [Queues(r) EXCEPT !.sched[l] = Tail(@)]
       IN  /\ \E req \in Requests(ev) :
                LET S == Payload(r, S0, l, ev.ts, ev, req)
                IN  /\ Commit(r, S, Created(req))
                    /\ PcAfter(r, S, "round")
                    /\ lpc' = [lpc EXCEPT ![r][l] =
                                  LpcAfter(S.sched[l], g_smallestTime[r])]
           /\ Invoke(r, l, ev)
           /\ StopAfter(r, ev)
    /\ iterExec' = [iterExec EXCEPT ![r] = @ + 1]
    /\ UNCHANGED << topo, sysId, m_minLookahead, numLPs, transfer, rxCount, avail,
                    m_pLBTS, m_smallestTime, g_smallestTime, m_globalFinished,
                    totRx, totTx, grants, snap,
                    destroyvars, poolvars, migvars >>

\* ProcessOneRound returns when every dispatched LP is done; line 246, the
\* loop test
RoundEnd(r) ==
    /\ pc[r] = "round"
    /\ \A l \in LocalLps(r) : lpc[r][l] = "idle"
    /\ pc' = [pc EXCEPT ![r] = AfterIteration(m_globalFinished[r])]
    /\ UNCHANGED << topo, sysId, m_minLookahead, numLPs, sched, inbox, now, eventCount,
                    lpc, transfer, rxCount, txCount, net, avail, m_pLBTS,
                    m_smallestTime, g_smallestTime, m_globalFinished, totRx, totTx,
                    nextId, invoked, iterExec, grants, snap,
                    stopvars, poolvars, migvars >>

Next ==
    \/ \E r \in Ranks : Partition(r)
    \/ \E r \in Ranks : MigrateInvoke(r)
    \/ \E r \in Ranks : MigrateSchedule(r)
    \/ \E r \in Ranks : RunBefore(r)
    \/ \E r \in Ranks : Deliver(r)
    \/ \E r \in Ranks : RunTop(r)
    \/ AllGather
    \/ \E r \in Ranks : AbortDetected(r)
    \/ \E r \in Ranks : Decide(r)
    \/ \E r \in Ranks : \E l \in LpIds : LPDrain(r, l)
    \/ \E r \in Ranks : \E l \in LpIds : LPExec(r, l)
    \/ \E r \in Ranks : RoundEnd(r)

Spec == Init /\ [][Next]_vars

(***************************************************************************)
(* Runs of a script that calls Simulator::Stop(delay) before Run, as the   *)
(* example does (simple-mtp.cc lines 237-239), every rank running the same *)
(* script: Stop(delay), lines 131-136, schedules on the calling LP, LP 0,  *)
(* an event at now + delay that calls Stop().                              *)
(***************************************************************************)
StopDelays == 0 .. 2

\* lines 131-136: the event Stop(delay) leaves on rank r
StopEvent(r, delay) ==
    [ts |-> delay, ctx |-> NoContext, ttl |-> 0, id |-> StopId(r), stop |-> TRUE]

\* LogicalProcess::ProcessOneRound, the test of the stop flag (design
\* document 4.2): the loop of an LP that was stopped ends
LPStopCheck(r, l) ==
    /\ pc[r] = "round"
    /\ lpc[r][l] = "run"
    /\ stopReq[r][l]
    /\ lpc' = [lpc EXCEPT ![r][l] = "idle"]
    /\ UNCHANGED << topo, sysId, m_minLookahead, numLPs, sched, inbox, now, eventCount,
                    pc, transfer, rxCount, txCount, net, avail, m_pLBTS,
                    m_smallestTime, g_smallestTime, m_globalFinished, totRx, totTx,
                    nextId, invoked, iterExec, grants, snap,
                    stopvars, poolvars, migvars >>

StopInit ==
    \E ml \in Lookaheads \ {0}, c \in StagedChoices, d \in StopDelays :
        InitFrom(Chain(1, 2), ml, c, [r \in Ranks |-> << StopEvent(r, d) >>])

StopNext == Next \/ \E r \in Ranks : \E l \in LpIds : LPStopCheck(r, l)

StopSpec == StopInit /\ [][StopNext]_vars

(***************************************************************************)
(* Runs for the event migration of Partition, lines 491-522: the script of *)
(* rank 0 schedules MaxMigrated events before Run, at time 0 or 1, without *)
(* context or with the context of a node (nodes 1 and 2 are of rank 0,     *)
(* node 3 is of rank 1), in any order; rank 1 schedules nothing.           *)
(***************************************************************************)
MaxMigrated == 3    \* events the script of rank 0 schedules before Run

MigrationScripts ==
    [1 .. MaxMigrated -> [ts : {0, 1}, ctx : {NoContext} \cup NodesOf(Chain(1, 2))]]

\* the events of script k, in the order the script schedules them
MigrationEvents(k) ==
    [i \in 1 .. MaxMigrated |->
        [ts |-> k[i].ts, ctx |-> k[i].ctx, ttl |-> 1, id |-> i, stop |-> FALSE]]

MigrationInit ==
    \E ml \in Lookaheads \ {0}, k \in MigrationScripts :
        InitFrom(Chain(1, 2), ml, {},
                 [r \in Ranks |-> IF r = 0 THEN MigrationEvents(k) ELSE << >>])

MigrationSpec == MigrationInit /\ [][Next]_vars

(***************************************************************************)
(* Runs of a script that registers destroy events, cancels and removes     *)
(* events before Run and after it, and calls Destroy when Run has          *)
(* returned: ScheduleDestroy (lines 170-180), Remove (182-201), Cancel     *)
(* (203-210), IsExpired (212-235), Destroy (91-107).  The calls are those  *)
(* of the script's thread; payloads of the run cancel nothing.             *)
(***************************************************************************)
MaxDestroy == 2     \* destroy events ever registered on one rank

\* the EventId of the k-th destroy event of rank r (uid DESTROY); the ids
\* of the other events are positive
DestroyId(r, k) == 0 - (r * MaxDestroy + k)
IsDestroyId(id) == id < 0

\* the ids a script may hand to Remove and IsExpired on rank r: those of
\* the destroy events registered so far and of those not registered yet
DestroyIds(r) == { DestroyId(r, k) : k \in 1 .. MaxDestroy }

\* the script's thread of rank r is outside Run and Destroy
ScriptPhase(r) == pc[r] \in {"start", "done"}

\* the events the script of rank r has an EventId of: Schedule (lines
\* 138-143) and ScheduleDestroy (170-180) return one, ScheduleWithContext
\* (145-162) returns void, so no caller holds the id of an event that was
\* scheduled with a node context; Stop(delay) (lines 131-136) drops the
\* EventId of the stop event it schedules and returns void
KnownIds(r) ==
    { staged[r][i].id :
        i \in { j \in 1 .. Len(staged[r]) :
                  staged[r][j].ctx = NoContext /\ ~ staged[r][j].stop } }
        \cup SeqSet(destroyReg[r])

\* the queue after an insertion at the front
PushFront(q, id) == << id >> \o q

\* lines 170-180: the queue after m_destroyEvents.push_back(id)
PushBack(q, id) == Append(q, id)

\* ScheduleDestroy on rank r: the state of the destroy queue afterwards
RegisterDestroy(r) ==
    LET id == DestroyId(r, Len(destroyReg[r]) + 1)
    IN  [queue |-> PushBack(m_destroyEvents[r], id), reg |-> Append(destroyReg[r], id)]

ScheduleDestroy(r) ==
    /\ ScriptPhase(r)
    /\ Len(destroyReg[r]) < MaxDestroy
    /\ m_destroyEvents' = [m_destroyEvents EXCEPT ![r] = RegisterDestroy(r).queue]
    /\ destroyReg' = [destroyReg EXCEPT ![r] = RegisterDestroy(r).reg]
    /\ UNCHANGED << topo, sysId, m_minLookahead, numLPs, sched, inbox, now, eventCount,
                    lpc, pc, transfer, rxCount, txCount, net, avail, m_pLBTS,
                    m_smallestTime, g_smallestTime, m_globalFinished, totRx, totTx,
                    nextId, invoked, iterExec, grants, snap,
                    stopReq, cancelled, destroyLog, removed, poolvars, migvars >>

\* LogicalProcess::IsExpired (design document 4.7): executed or cancelled
LP_IsExpired(id) == invoked[id] # << >> \/ id \in cancelled

\* lines 212-235 without the test of the cancelled flag at line 217
HSI_IsExpiredQueueOnly(r, id) ==
    IF IsDestroyId(id)
    THEN id \notin SeqSet(m_destroyEvents[r])
    ELSE LP_IsExpired(id)

\* lines 212-235
HSI_IsExpired(r, id) ==
    IF IsDestroyId(id)
    THEN id \in cancelled \/ id \notin SeqSet(m_destroyEvents[r])
    ELSE LP_IsExpired(id)

\* lines 203-210
Cancel(r, id) ==
    /\ ScriptPhase(r)
    /\ id \in KnownIds(r)
    /\ cancelled' = IF ~ HSI_IsExpired(r, id) THEN cancelled \cup {id} ELSE cancelled
    /\ UNCHANGED << topo, sysId, m_minLookahead, numLPs, sched, inbox, now, eventCount,
                    lpc, pc, transfer, rxCount, txCount, net, avail, m_pLBTS,
                    m_smallestTime, g_smallestTime, m_globalFinished, totRx, totTx,
                    nextId, invoked, iterExec, grants, snap,
                    stopReq, m_destroyEvents, destroyLog, destroyReg, removed,
                    poolvars, migvars >>

\* lines 187-194: the loop over m_destroyEvents erases the first entry equal
\* to id and breaks
RECURSIVE EraseFirst(_, _)
EraseFirst(q, id) ==
    IF q = << >> THEN << >>
    ELSE IF Head(q) = id THEN Tail(q)
    ELSE << Head(q) >> \o EraseFirst(Tail(q), id)

\* LogicalProcess::Remove (design document 4.7): the event is taken out of
\* the scheduler of the LP, if it is there
LP_Remove(q, id) == SelectSeq(q, LAMBDA x : x.id # id)

\* lines 182-201, called by the script: for an id with uid DESTROY the first
\* entry of m_destroyEvents equal to id is erased (184-196); for any other
\* id the event is removed from the LP of the calling thread (197-200),
\* which is LP 0 for the script
Remove(r, id) ==
    /\ ScriptPhase(r)
    /\ id \in KnownIds(r)
    /\ IF IsDestroyId(id)
       THEN /\ m_destroyEvents' = [m_destroyEvents EXCEPT ![r] = EraseFirst(@, id)]
            /\ removed' = IF id \in SeqSet(m_destroyEvents[r])
                          THEN removed \cup {id} ELSE removed
            /\ UNCHANGED sched
       ELSE /\ sched' = [sched EXCEPT ![r][0] = LP_Remove(@, id)]
            /\ removed' = IF \E ev \in SeqSet(sched[r][0]) : ev.id = id
                          THEN removed \cup {id} ELSE removed
            /\ UNCHANGED m_destroyEvents
    /\ UNCHANGED << topo, sysId, m_minLookahead, numLPs, inbox, now, eventCount,
                    lpc, pc, transfer, rxCount, txCount, net, avail, m_pLBTS,
                    m_smallestTime, g_smallestTime, m_globalFinished, totRx, totTx,
                    nextId, invoked, iterExec, grants, snap,
                    stopReq, cancelled, destroyLog, destroyReg, poolvars, migvars >>

\* line 99 without the test of the cancelled flag
DestroyInvokesAll(id) == TRUE

\* line 99: Destroy invokes the event it took from the queue
DestroyInvokes(id) == id \notin cancelled

\* lines 93-103, one turn of the loop of Destroy: the front event leaves the
\* queue and is invoked unless it is cancelled; its payload may register a
\* destroy event
DestroyStep(r) ==
    /\ pc[r] \in {"done", "destroying"}
    /\ m_destroyEvents[r] # << >>
    /\ LET id == Head(m_destroyEvents[r])
           rest == Tail(m_destroyEvents[r])
       IN  IF DestroyInvokes(id)
           THEN /\ destroyLog' = [destroyLog EXCEPT ![r] = Append(@, id)]
                /\ \E again \in BOOLEAN :
                     IF again /\ Len(destroyReg[r]) < MaxDestroy
                     THEN /\ m_destroyEvents' =
                               [m_destroyEvents EXCEPT ![r] =
                                   PushBack(rest, DestroyId(r, Len(destroyReg[r]) + 1))]
                          /\ destroyReg' = [destroyReg EXCEPT ![r] = RegisterDestroy(r).reg]
                     ELSE /\ m_destroyEvents' = [m_destroyEvents EXCEPT ![r] = rest]
                          /\ UNCHANGED destroyReg
           ELSE /\ m_destroyEvents' = [m_destroyEvents EXCEPT ![r] = rest]
                /\ UNCHANGED << destroyLog, destroyReg >>
    /\ pc' = [pc EXCEPT ![r] = "destroying"]
    /\ UNCHANGED << topo, sysId, m_minLookahead, numLPs, sched, inbox, now, eventCount,
                    lpc, transfer, rxCount, txCount, net, avail, m_pLBTS,
                    m_smallestTime, g_smallestTime, m_globalFinished, totRx, totTx,
                    nextId, invoked, iterExec, grants, snap,
                    stopReq, cancelled, removed, poolvars, migvars >>

\* lines 93 and 105-106: the queue is empty, the runtime is shut down
DestroyEnd(r) ==
    /\ pc[r] \in {"done", "destroying"}
    /\ m_destroyEvents[r] = << >>
    /\ pc' = [pc EXCEPT ![r] = "destroyed"]
    /\ UNCHANGED << topo, sysId, m_minLookahead, numLPs, sched, inbox, now, eventCount,
                    lpc, transfer, rxCount, txCount, net, avail, m_pLBTS,
                    m_smallestTime, g_smallestTime, m_globalFinished, totRx, totTx,
                    nextId, invoked, iterExec, grants, snap,
                    stopvars, poolvars, migvars >>

\* LogicalProcess::ProcessOneRound on a cancelled event (design document
\* 4.7): the scheduler returns it and the LP skips its execution
LPSkip(r, l) ==
    /\ pc[r] = "round"
    /\ lpc[r][l] = "run"
    /\ ~ stopReq[r][l]
    /\ Head(sched[r][l]).id \in cancelled
    /\ sched' = [sched EXCEPT ![r][l] = Tail(@)]
    /\ now' = [now EXCEPT ![r][l] = Head(sched[r][l]).ts]
    /\ lpc' = [lpc EXCEPT ![r][l] = LpcAfter(Tail(sched[r][l]), g_smallestTime[r])]
    /\ UNCHANGED << topo, sysId, m_minLookahead, numLPs, inbox, eventCount,
                    pc, transfer, rxCount, txCount, net, avail, m_pLBTS,
                    m_smallestTime, g_smallestTime, m_globalFinished, totRx, totTx,
                    nextId, invoked, iterExec, grants, snap,
                    stopvars, poolvars, migvars >>

\* lines 507-512 on a cancelled event: InvokeNow skips it
MigrateSkip(r) ==
    /\ pc[r] = "migrate"
    /\ transfer[r] # << >>
    /\ Head(transfer[r]).ts = 0
    /\ Head(transfer[r]).id \in cancelled
    /\ transfer' = [transfer EXCEPT ![r] = Tail(@)]
    /\ UNCHANGED << topo, sysId, m_minLookahead, numLPs, sched, inbox, now, eventCount,
                    lpc, pc, rxCount, txCount, net, avail, m_pLBTS,
                    m_smallestTime, g_smallestTime, m_globalFinished, totRx, totTx,
                    nextId, invoked, iterExec, grants, snap,
                    stopvars, poolvars, migvars >>

\* the scripts: what they stage (entries of StagedPool), and the ranks
\* whose script registers destroy events (the destroy queue is a structure
\* of one process, nothing of it is sent to another rank)
TeardownChoices == { {1, 2}, {2, 5}, {4, 6} }
DestroyRanks == {0}

TeardownInit ==
    \E ml \in Lookaheads \ {0}, c \in TeardownChoices : InitWith(Chain(1, 2), ml, c)

TeardownNext ==
    \/ Next
    \/ \E r \in Ranks : \E l \in LpIds : LPSkip(r, l)
    \/ \E r \in Ranks : MigrateSkip(r)
    \/ \E r \in DestroyRanks : ScheduleDestroy(r)
    \/ \E r \in Ranks : \E id \in KnownIds(r) : Cancel(r, id)
    \/ \E r \in Ranks : \E id \in KnownIds(r) : Remove(r, id)
    \/ \E r \in Ranks : DestroyStep(r)
    \/ \E r \in Ranks : DestroyEnd(r)

TeardownSpec == TeardownInit /\ [][TeardownNext]_vars

(***************************************************************************)
(* The same runs with the worker pool of MtpInterface (design document     *)
(* 4.3): ThreadCount workers pull the LPs of the round from a shared FIFO  *)
(* work queue, each runs LogicalProcess::ProcessOneRound on the LP it      *)
(* pulled, and ProcessOneRound of the runtime returns when the queue is    *)
(* empty and every worker is idle.                                         *)
(***************************************************************************)
\* the LPs of rank r dispatched in a round of grant g, in the order of
\* dispatch, from LP i on
RECURSIVE LpsFrom(_, _, _)
LpsFrom(r, i, g) ==
    IF i > numLPs[r] THEN << >>
    ELSE (IF Fanned(Queues(r), i, g) THEN << i >> ELSE << >>) \o LpsFrom(r, i + 1, g)

Idle(r, w) == holder[r][w] = NoLp

DecideW(r) ==
    /\ DecideRound(r, "queued")
    /\ workQ' = [workQ EXCEPT ![r] = IF pc'[r] = "round"
                                            THEN LpsFrom(r, 0, SmallestOf(m_pLBTS[r]))
                                            ELSE << >>]
    /\ taken' = [taken EXCEPT ![r] = [l \in LpIds |-> 0]]
    /\ UNCHANGED << holder, access, corrupt >>

\* an idle worker removes the LP at the head of the work queue
WorkerTake(r, w) ==
    /\ pc[r] = "round"
    /\ w <= ThreadCount(r)
    /\ Idle(r, w)
    /\ workQ[r] # << >>
    /\ LET l == Head(workQ[r])
       IN  /\ holder' = [holder EXCEPT ![r][w] = l]
           /\ taken' = [taken EXCEPT ![r][l] = @ + 1]
           /\ lpc' = [lpc EXCEPT ![r][l] = "drain"]
    /\ workQ' = [workQ EXCEPT ![r] = Tail(@)]
    /\ UNCHANGED << topo, sysId, m_minLookahead, numLPs, sched, inbox, now, eventCount,
                    pc, transfer, rxCount, txCount, net, avail, m_pLBTS,
                    m_smallestTime, g_smallestTime, m_globalFinished, totRx, totTx,
                    nextId, invoked, iterExec, grants, snap, stopvars, migvars,
                    access, corrupt >>

\* LogicalProcess::ProcessOneRound has returned: the worker is idle again
WorkerDone(r, w) ==
    /\ pc[r] = "round"
    /\ ~ Idle(r, w)
    /\ lpc[r][holder[r][w]] = "idle"
    /\ ~ access[r][w].in
    /\ holder' = [holder EXCEPT ![r][w] = NoLp]
    /\ UNCHANGED << topo, sysId, m_minLookahead, numLPs, sched, inbox, now, eventCount,
                    lpc, pc, transfer, rxCount, txCount, net, avail, m_pLBTS,
                    m_smallestTime, g_smallestTime, m_globalFinished, totRx, totTx,
                    nextId, invoked, iterExec, grants, snap, stopvars, migvars,
                    workQ, taken, access, corrupt >>

\* the round is over before every worker is idle
AllIdleQueueOnly(r) == workQ[r] = << >>

\* the runtime's ProcessOneRound returns when all workers are idle
AllIdle(r) == workQ[r] = << >> /\ \A w \in Workers : Idle(r, w)

RoundEndW(r) ==
    /\ pc[r] = "round"
    /\ AllIdle(r)
    /\ pc' = [pc EXCEPT ![r] = AfterIteration(m_globalFinished[r])]
    /\ UNCHANGED << topo, sysId, m_minLookahead, numLPs, sched, inbox, now, eventCount,
                    lpc, transfer, rxCount, txCount, net, avail, m_pLBTS,
                    m_smallestTime, g_smallestTime, m_globalFinished, totRx, totTx,
                    nextId, invoked, iterExec, grants, snap,
                    stopvars, poolvars, migvars >>

WorkerNext ==
    \/ \E r \in Ranks : Partition(r)
    \/ \E r \in Ranks : MigrateInvoke(r)
    \/ \E r \in Ranks : MigrateSchedule(r)
    \/ \E r \in Ranks : RunBefore(r)
    \/ \E r \in Ranks : Deliver(r)
    \/ \E r \in Ranks : RunTop(r)
    \/ AllGather
    \/ \E r \in Ranks : AbortDetected(r)
    \/ \E r \in Ranks : DecideW(r)
    \/ \E r \in Ranks : \E w \in Workers : WorkerTake(r, w)
    \/ \E r \in Ranks : \E l \in LpIds : LPDrain(r, l)
    \/ \E r \in Ranks : \E l \in LpIds : LPExec(r, l)
    \/ \E r \in Ranks : \E w \in Workers : WorkerDone(r, w)
    \/ \E r \in Ranks : RoundEndW(r)

WorkerInit ==
    \E ml \in Lookaheads \ {0}, c \in StagedChoices : InitWith(Chain(1, 2), ml, c)

WorkerSpec == WorkerInit /\ [][WorkerNext]_vars

(***************************************************************************)
(* Calls on the destroy queue made by event payloads while a round runs:   *)
(* ScheduleDestroy (lines 170-180), Remove (182-201), IsExpired (212-235)  *)
(* and Cancel (203-210, which calls IsExpired) of a DESTROY id, on the     *)
(* worker thread that executes the payload's LP.  A call is two steps,     *)
(* entering the part that touches m_destroyEvents and leaving it.          *)
(* ScheduleDestroy constructs MtpInterface::CriticalSection (line 176)     *)
(* before push_back and holds it to its return; Remove, IsExpired and      *)
(* Cancel construct none, so nothing keeps them out of the queue, whatever *)
(* id they are called with.  Two calls inside the queue at once, one of    *)
(* them writing, are a data race on a std::list, which is undefined        *)
(* behaviour: a call that raced takes effect, or its write is lost, or it  *)
(* leaves the list unsound (its size and its links disagree), or the       *)
(* process is killed (SIGSEGV, SIGABRT on a double free); a call on an     *)
(* unsound list has the same outcomes.  The script calls ScheduleDestroy   *)
(* before Run only.                                                        *)
(***************************************************************************)
MaxCalls == 1       \* calls on the destroy queue one worker makes in a run

\* design document 4.3, criticalSection: a scoped mutex; it is free when no
\* call that constructed it is still in its scope
CriticalSectionFree(r) ==
    \A w \in Workers : ~ (access[r][w].in /\ access[r][w].op = "ScheduleDestroy")

\* worker w, inside a payload of its LP, reaches the queue in call op(id);
\* the id of Remove, IsExpired and Cancel is one that a ScheduleDestroy
\* has returned
QueueEnter(r, w, op, id) ==
    /\ pc[r] = "round"
    /\ ~ Idle(r, w)
    /\ lpc[r][holder[r][w]] = "run"
    /\ ~ access[r][w].in
    /\ access[r][w].n < MaxCalls
    /\ IF op = "ScheduleDestroy"
       THEN /\ Len(destroyReg[r]) < MaxDestroy
            /\ id = DestroyId(r, Len(destroyReg[r]) + 1)
            /\ CriticalSectionFree(r)
            /\ destroyReg' = [destroyReg EXCEPT ![r] = Append(@, id)]
       ELSE /\ id \in SeqSet(destroyReg[r])
            /\ \A w2 \in Workers :
                  (access[r][w2].in /\ access[r][w2].op = "ScheduleDestroy")
                      => access[r][w2].id # id
            /\ UNCHANGED destroyReg
    /\ LET reads(o) == o \in {"IsExpired", "Cancel"}
           races(w2) == /\ w2 # w
                        /\ access[r][w2].in
                        /\ ~ (reads(op) /\ reads(access[r][w2].op))
       IN  access' = [access EXCEPT ![r] =
                        [w2 \in Workers |->
                            IF w2 = w
                            THEN [op |-> op, id |-> id, in |-> TRUE,
                                  raced |-> \E w3 \in Workers : races(w3),
                                  n |-> access[r][w].n + 1]
                            ELSE IF races(w2) THEN [access[r][w2] EXCEPT !.raced = TRUE]
                            ELSE access[r][w2]]]
    /\ UNCHANGED << topo, sysId, m_minLookahead, numLPs, sched, inbox, now, eventCount,
                    lpc, pc, transfer, rxCount, txCount, net, avail, m_pLBTS,
                    m_smallestTime, g_smallestTime, m_globalFinished, totRx, totTx,
                    nextId, invoked, iterExec, grants, snap,
                    stopReq, cancelled, m_destroyEvents, destroyLog, removed,
                    workQ, holder, taken, corrupt, migvars >>

\* the call of worker w leaves the queue: lines 177 (push_back), 187-194
\* (erase), 221-228 (the search of IsExpired), 205-208 (Cancel sets the flag
\* when IsExpired returned false)
QueueLeave(r, w) ==
    /\ pc[r] = "round"
    /\ access[r][w].in
    /\ LET a == access[r][w]
           q == m_destroyEvents[r]
           writes == a.op \in {"ScheduleDestroy", "Remove"}
           unsound == a.raced \/ corrupt[r]
           done == CASE a.op = "ScheduleDestroy" -> PushBack(q, a.id)
                     [] a.op = "Remove" -> EraseFirst(q, a.id)
                     [] OTHER -> q
           outcomes == IF ~ unsound THEN {"done"}
                       ELSE IF writes THEN {"done", "lost", "unsound", "killed"}
                       ELSE {"done", "killed"}
       IN  \E o \in outcomes :
               /\ pc' = IF o = "killed" THEN [pc EXCEPT ![r] = "aborted"] ELSE pc
               /\ corrupt' = IF o = "unsound" THEN [corrupt EXCEPT ![r] = TRUE] ELSE corrupt
               /\ \E out \in (CASE o = "done" -> {done}
                                [] o = "unsound" -> {done, q}
                                [] OTHER -> {q}) :
                     /\ m_destroyEvents' = [m_destroyEvents EXCEPT ![r] = out]
                     /\ removed' = IF a.op = "Remove" /\ out # q
                                   THEN removed \cup {a.id} ELSE removed
               /\ \E expired \in (IF unsound THEN BOOLEAN ELSE {HSI_IsExpired(r, a.id)}) :
                     cancelled' = IF a.op = "Cancel" /\ o # "killed" /\ ~ expired
                                  THEN cancelled \cup {a.id} ELSE cancelled
    /\ access' = [access EXCEPT ![r][w].in = FALSE, ![r][w].raced = FALSE]
    /\ UNCHANGED << topo, sysId, m_minLookahead, numLPs, sched, inbox, now, eventCount,
                    lpc, transfer, rxCount, txCount, net, avail, m_pLBTS,
                    m_smallestTime, g_smallestTime, m_globalFinished, totRx, totTx,
                    nextId, invoked, iterExec, grants, snap,
                    stopReq, destroyLog, destroyReg,
                    workQ, holder, taken, migvars >>

QueueNext ==
    \/ WorkerNext
    \/ \E r \in DestroyRanks : pc[r] = "start" /\ ScheduleDestroy(r)
    \/ \E r \in DestroyRanks : \E w \in Workers :
          \E op \in {"ScheduleDestroy", "Remove", "IsExpired", "Cancel"} :
              \E id \in DestroyIds(r) : QueueEnter(r, w, op, id)
    \/ \E r \in DestroyRanks : \E w \in Workers : QueueLeave(r, w)

\* the scripts stage what those of TeardownSpec stage
QueueSpec == TeardownInit /\ [][QueueNext]_vars

(***************************************************************************)
(* Partition alone, on a larger family of topologies: MaxNodes nodes in    *)
(* any assignment to the ranks, joined by two point-to-point links and a   *)
(* shared (non point-to-point) channel, no event staged.                   *)
(***************************************************************************)
RankMaps == { m \in [1 .. MaxNodes -> Ranks] : TRUE }

\* a line of point-to-point links n1 - n2 - n3 - n(MaxNodes), delays 1, 3, 1
LineTopologies ==
    { [ahead |-> 0, rank |-> [n \in 1 .. MaxNodes |-> m[n]],
       chans |-> << P2p(1, 1, 2), P2p(3, 2, 3), P2p(1, 3, MaxNodes) >>] :
          m \in RankMaps }

PartitionTopologies ==
    { [ahead |-> 0, rank |-> [n \in 1 .. MaxNodes |-> m[n]],
       chans |-> << P2p(d1, 1, 2), P2p(d2, 2, 3), Bus(1, << 1, 3, MaxNodes >>) >>] :
          m \in RankMaps, d1 \in {1, 3}, d2 \in {1, 2} }
    \cup LineTopologies

PartitionInit ==
    \E T \in PartitionTopologies, ml \in Lookaheads : InitWith(T, ml, {})

PartitionNext == \E r \in Ranks : Partition(r)

PartitionSpec == PartitionInit /\ [][PartitionNext]_vars

(***************************************************************************)
(* Partition on a rank that owns about 2^16 nodes.  The nodes ahead of the *)
(* MaxNodes tracked ones have no device, so each is an LP of its own; the  *)
(* tracked nodes get the LP ids around the end of the 16-bit field.        *)
(***************************************************************************)
AheadChoices == { LpField - 2, LpField - 1, LpField }

OverflowTopologies ==
    { [T EXCEPT !.ahead = a] : T \in PartitionTopologies, a \in AheadChoices }

OverflowInit ==
    \E T \in OverflowTopologies, ml \in Lookaheads : InitWith(T, ml, {})

OverflowSpec == OverflowInit /\ [][PartitionNext]_vars

(***************************************************************************)
(* The same runs under the scheduling the platform gives: the process of   *)
(* every rank keeps running (its coordinator thread and the workers that   *)
(* run its LPs), a message in flight arrives, and the collective completes *)
(* once every rank has entered it.                                         *)
(***************************************************************************)
RankStep(r) ==
    \/ Partition(r)
    \/ MigrateInvoke(r)
    \/ MigrateSchedule(r)
    \/ RunBefore(r)
    \/ RunTop(r)
    \/ AbortDetected(r)
    \/ Decide(r)
    \/ \E l \in LpIds : LPDrain(r, l)
    \/ \E l \in LpIds : LPExec(r, l)
    \/ RoundEnd(r)

FairSpec ==
    /\ Init
    /\ [][Next]_vars
    /\ \A r \in Ranks : WF_vars(RankStep(r))
    /\ \A r \in Ranks : WF_vars(Deliver(r))
    /\ WF_vars(AllGather)

\* the runs of StopSpec under the same scheduling
FairStopSpec ==
    /\ StopSpec
    /\ \A r \in Ranks : WF_vars(RankStep(r))
    /\ \A r \in Ranks : WF_vars(\E l \in LpIds : LPStopCheck(r, l))
    /\ \A r \in Ranks : WF_vars(Deliver(r))
    /\ WF_vars(AllGather)

(***************************************************************************)
(* HybridSimulatorImpl::GetEventCount, lines 350-359: the sum of the event  *)
(* counts of the LPs 0 .. GetSize() - 1.                                    *)
(***************************************************************************)
RECURSIVE SumEventCount(_, _, _)
SumEventCount(r, i, acc) ==
    IF i >= GetSize(r) THEN acc ELSE SumEventCount(r, i + 1, acc + eventCount[r][i])

\* the loop started at LP 1, the public LP left out
GetEventCountFromOne(r) == SumEventCount(r, 1, 0)

GetEventCount(r) == SumEventCount(r, 0, 0)


(***************************************************************************)
(* Properties.                                                             *)
(***************************************************************************)
\* the messages sent and not yet received by the coordinator of their rank
InFlight == UNION { SeqSet(net[d]) \cup SeqSet(avail[d]) : d \in Ranks }

\* rank r is inside the loop of Run with the array of the last all-gather
\* (RunTop overwrites the rank's own slot for the next one)
HoldsGathered(r) == pc[r] \in {"decide", "round"} \/ (pc[r] = "top" /\ grants[r].cur # -1)

\* C1: a round of event execution is run only in an iteration whose
\* all-gather gave totRx = totTx: a rank is inside a round only with equal
\* totals, no rank invokes an event in an iteration whose totals differ, and
\* a message that is in flight has not had its event invoked.
C1_RoundOnlyWithoutTransients ==
    /\ \A r \in Ranks :
          /\ pc[r] = "round" =>
                 /\ SumRx(m_pLBTS[r]) = SumTx(m_pLBTS[r])
                 /\ totRx[r] = totTx[r]
                 /\ snap.match
          /\ (~ snap.match) /\ pc[r] # "aborted" /\ grants[r].cur # -1 => iterExec[r] = 0
    /\ \A m \in InFlight : invoked[m.id] = << >>

\* C1, witness: an iteration whose totals differ (a message is in flight)
\* ends without a round on a rank that has events to execute.
C1_Witness ==
    \E r \in Ranks :
        /\ pc[r] = "top"
        /\ grants[r].cur # -1
        /\ totRx[r] # totTx[r]
        /\ ~ IsLocalFinished(r, Queues(r))
        /\ iterExec[r] = 0
        /\ InFlight # {}

\* C2: every event a rank invokes has a timestamp at most the grant of the
\* iteration, the minimum of the smallest times all ranks reported, and the
\* clock of no LP passes that grant.
C2_WithinGrant ==
    \A r \in Ranks :
        HoldsGathered(r) /\ pc[r] # "decide" =>
            /\ grants[r].cur = MinSmallest(m_pLBTS[r])
            /\ g_smallestTime[r] = grants[r].cur
            /\ \A l \in LpIds : now[r][l] <= grants[r].cur

\* C2, witness: an LP has just invoked an event whose timestamp is the grant,
\* the grant being below the smallest time another rank reported.
C2_Witness ==
    \E r \in Ranks : \E l \in LocalLps(r) : \E q \in Ranks :
        /\ pc[r] = "round"
        /\ iterExec[r] > 0
        /\ now[r][l] > 0
        /\ now[r][l] = grants[r].cur
        /\ m_pLBTS[r][r].smallest < m_pLBTS[r][q].smallest
        /\ m_pLBTS[r][q].smallest < Infinity

\* C3: every LP invokes its events in non-decreasing timestamp order (its
\* clock never goes back), and no event is inserted into an LP's scheduler,
\* from its inbox or from a received message, with a timestamp earlier than
\* the clock of that LP.  The outcome follows the fan-out: it holds when a
\* round dispatches the LPs whose next event is inside the window, and not
\* when every LP drains its inbox in every round (the first grant is then
\* +infinity, the staged events waiting in inboxes, and an LP executes its
\* events before an earlier one of another LP or rank has arrived).
C3_TimestampOrder ==
    [][\A r \in Ranks : \A l \in LpIds :
          /\ now'[r][l] >= now[r][l]
          /\ \A ev \in SeqSet(sched'[r][l]) : ev.ts >= now'[r][l]]_vars

\* the LP of rank r whose thread takes the step: the LP that invokes an
\* event in it, LP 0 (the coordinator's) in the other steps
Actor(r) ==
    IF \E l \in LpIds : eventCount'[r][l] # eventCount[r][l]
    THEN CHOOSE l \in LpIds : eventCount'[r][l] # eventCount[r][l]
    ELSE 0

\* the events LP l of rank r holds after a step and did not hold before it
Arrived(r, l) ==
    (SeqSet(sched'[r][l]) \cup { x.ev : x \in SeqSet(inbox'[r][l]) }) \ Pending(r, l)

\* C4: every event one LP schedules onto another LP has timestamp - sender's
\* clock >= minLookahead and goes to the target's inbox, and a step that ends
\* in the fatal error LookaheadViolation hands no event to another LP; this
\* covers the re-scheduling of the staged events by Partition.
C4_LookaheadRespected ==
    [][\A r \in Ranks : \A l \in LpIds \ {Actor(r)} :
          /\ \A ev \in Arrived(r, l) :
                 /\ ev.ts - now'[r][Actor(r)] >= m_minLookahead'[r]
                 /\ \E x \in SeqSet(inbox'[r][l]) :
                        x.ev = ev /\ x.from = Actor(r) /\ x.sentAt = now'[r][Actor(r)]
          /\ pc[r] # "aborted" /\ pc'[r] = "aborted" => Arrived(r, l) = {}]_vars

\* C4, witness: Partition's transfer loop has re-scheduled a staged event
\* onto the LP of its node with a delay of exactly minLookahead, and on the
\* other rank the same kind of call ended in the fatal error.
C4_Witness ==
    \E r \in Ranks : \E l \in LocalLps(r) : \E x \in SeqSet(inbox[r][l]) :
        /\ pc[r] = "migrate"
        /\ x.from = 0
        /\ m_minLookahead[r] > 0
        /\ x.ev.ts - x.sentAt = m_minLookahead[r]
        /\ \E q \in Ranks : pc[q] = "aborted"

\* Run has returned on rank r
Returned(r) == pc[r] = "done"

\* the events of rank r that wait in a scheduler, an inbox or the transfer list
NoPending(r) ==
    /\ \A l \in LpIds : Pending(r, l) = {}
    /\ transfer[r] = << >>

\* C5: the loop of Run is left exactly when the gathered array has every
\* rank finished and totRx = totTx; when Run has returned the sums of
\* txCount and of rxCount over the ranks are equal, no message is in flight
\* and no rank holds a pending event.
C5_ExitCondition ==
    \A r \in Ranks :
        /\ Returned(r) =>
               /\ AllFinished(m_pLBTS[r])
               /\ SumRx(m_pLBTS[r]) = SumTx(m_pLBTS[r])
               /\ SetSum(txCount, Ranks) = SetSum(rxCount, Ranks)
               /\ InFlight = {}
               /\ \A q \in Ranks : NoPending(q)
        /\ HoldsGathered(r) /\ pc[r] # "decide" =>
               ~ (AllFinished(m_pLBTS[r]) /\ SumRx(m_pLBTS[r]) = SumTx(m_pLBTS[r]))

\* C5, witness: Run has returned on every rank after messages crossed the
\* ranks in both directions.
C5_Witness ==
    /\ \A r \in Ranks : Returned(r) /\ txCount[r] > 0 /\ rxCount[r] > 0

\* C6: with finitely many events, no Stop and every message in flight
\* eventually received, Run returns on every rank: the loop neither
\* deadlocks nor spins for ever (a run that ends in the fatal error
\* LookaheadViolation ends the processes instead).  Under FairSpec this holds
\* with window "upto" and fanout "all" only: with window "below" the event
\* whose timestamp is the grant is never executed, with fanout "next" an
\* event in the inbox of an LP whose scheduler is empty is never drained,
\* and the loop iterates for ever.
C6_RunReturns ==
    <>((\A r \in Ranks : Returned(r)) \/ (\A r \in Ranks : pc[r] = "aborted"))

\* C6, witness: Run has returned on every rank after rounds on both ranks,
\* a message between them and a grant below the last one.
C6_Witness ==
    /\ \A r \in Ranks : Returned(r) /\ SetSum(eventCount[r], LpIds) > 0
    /\ \E r \in Ranks : rxCount[r] > 0 /\ grants[r].prev < grants[r].cur

\* C7: an iteration whose all-gather gave totRx = totTx while some LP held
\* an event below grant + minLookahead has at least one event invoked, on
\* some rank, before the next all-gather.  It holds with window "upto" and
\* fanout "all" only, for the same reasons as C6.
C7_Progress ==
    (\A r \in Ranks : pc[r] \in {"gather", "done"}) /\ snap.match /\ snap.pend
        => SetSum(iterExec, Ranks) >= 1

\* C7, witness: every rank is back at the all-gather after such an
\* iteration, in which one rank invoked events and the other none.
C7_Witness ==
    /\ \A r \in Ranks : pc[r] = "gather"
    /\ snap.match /\ snap.pend
    /\ \E r \in Ranks : iterExec[r] = 0
    /\ \E r \in Ranks : iterExec[r] > 1

\* C8: the grant never decreases from one iteration of Run to the next,
\* whether or not the totals of the iteration were equal.
C8_GrantMonotone ==
    \A r \in Ranks : grants[r].prev # -1 => grants[r].prev <= grants[r].cur

\* C8, witness: the grant rose in an iteration whose totals differ.
C8_Witness ==
    \E r \in Ranks :
        /\ pc[r] = "top"
        /\ grants[r].prev # -1
        /\ grants[r].prev < grants[r].cur
        /\ totRx[r] # totTx[r]

\* the events created so far
CreatedIds == 1 .. (nextId - 1)

\* the invocations of events rank r made
InvokedOn(r) ==
    SetSum([i \in EventIds |-> Len(SelectSeq(invoked[i], LAMBDA x : x = r))], EventIds)

\* C9: when Run has returned on every rank, every event that was scheduled
\* has been invoked exactly once, and GetEventCount() of a rank is the number
\* of events the LPs of that rank invoked.
C9_ExactlyOnce ==
    /\ \A i \in CreatedIds : Len(invoked[i]) <= 1
    /\ \A r \in Ranks : Returned(r) => GetEventCount(r) = InvokedOn(r)
    /\ (\A r \in Ranks : Returned(r)) => \A i \in CreatedIds : Len(invoked[i]) = 1

\* C9, witness: Run has returned everywhere, MaxEvents events were created,
\* and a rank invoked events on its public LP, on an LP of a node and one
\* that came in a message.
C9_Witness ==
    /\ \A r \in Ranks : Returned(r)
    /\ nextId = MaxEvents + 1
    /\ \E r \in Ranks :
          /\ eventCount[r][0] > 0
          /\ eventCount[r][1] > 0
          /\ rxCount[r] > 0

\* Partition has run on rank r
Partitioned(r) == pc[r] # "start"

\* node a and node b have devices on one channel
Adjacent(a, b) ==
    \E c \in 1 .. Len(topo.chans) :
        /\ \E j \in 1 .. Len(topo.chans[c].ends) : topo.chans[c].ends[j] = a
        /\ \E j \in 1 .. Len(topo.chans[c].ends) : topo.chans[c].ends[j] = b

\* C10: after Partition on a rank, the system id of every node of that rank
\* has an LP id in 1 .. numLPs in its high 16 bits and the rank in its low
\* 16 bits, and the system id of every node of another rank is the one the
\* node was created with.
C10_SystemIdEncoding ==
    \A r \in Ranks : Partitioned(r) =>
        /\ numLPs[r] <= NumNodes(topo)
        /\ \A n \in NodesOf(topo) :
              IF topo.rank[n] = r
              THEN /\ sysId[r][n].lp \in 1 .. numLPs[r]
                   /\ sysId[r][n].rank = r
              ELSE sysId[r][n] = SystemIdOf(topo.rank[n])

\* C10, witness: Partition has run on a rank that owns several nodes, one of
\* them on a channel with a node of the other rank.
C10_Witness ==
    \E r \in Ranks : \E a, b \in NodesOf(topo) :
        /\ Partitioned(r)
        /\ numLPs[r] >= 2
        /\ topo.rank[a] = r
        /\ topo.rank[b] # r
        /\ a # b
        /\ Adjacent(a, b)

\* node n is owned by rank r
Local(r, n) == topo.rank[n] = r

\* channel c has a device on node n
OnChannel(c, n) == \E j \in 1 .. Len(topo.chans[c].ends) : topo.chans[c].ends[j] = n

\* nodes a and b are on a common channel that is no partition cut for rank r
Joined(r, a, b) ==
    \E c \in 1 .. Len(topo.chans) :
        OnChannel(c, a) /\ OnChannel(c, b) /\ ~ IsCut(topo, c, m_minLookahead[r])

\* C11: after Partition, two nodes of the rank that are on a common channel
\* which is no partition cut (not point-to-point, or point-to-point with
\* delay < minLookahead) have the same LP id.
C11_UncutChannelSameLp ==
    \A r \in Ranks : Partitioned(r) =>
        \A a, b \in NodesOf(topo) :
            Local(r, a) /\ Local(r, b) /\ Joined(r, a, b)
                => sysId[r][a].lp = sysId[r][b].lp

\* the nodes of rank r reached from the set S over channels that are no cut,
\* through nodes of rank r only
RECURSIVE Reach(_, _)
Reach(r, S) ==
    LET more == { b \in NodesOf(topo) : Local(r, b) /\ \E a \in S : Joined(r, a, b) }
    IN  IF more \subseteq S THEN S ELSE Reach(r, S \cup more)

\* C12: the BFS of Partition crosses no point-to-point channel with delay >=
\* minLookahead and passes through no node of another rank: two nodes of the
\* rank have the same LP id only if a path of channels that are no cut, over
\* nodes of the rank only, joins them; no node of another rank is relabelled.
C12_BfsStaysInside ==
    \A r \in Ranks : Partitioned(r) =>
        /\ \A a, b \in NodesOf(topo) :
              Local(r, a) /\ Local(r, b) /\ sysId[r][a].lp = sysId[r][b].lp
                  => b \in Reach(r, {a})
        /\ \A n \in NodesOf(topo) : ~ Local(r, n) => sysId[r][n] = SystemIdOf(topo.rank[n])

\* C12, witness: Partition has run on a rank with two nodes on a cut link
\* (LP ids differ), joined besides over a channel that is no cut through a
\* node of the other rank.
C12_Witness ==
    \E r \in Ranks : \E a, b, x \in NodesOf(topo) :
        /\ Partitioned(r)
        /\ Local(r, a) /\ Local(r, b) /\ ~ Local(r, x)
        /\ a # b
        /\ Adjacent(a, b)
        /\ ~ Joined(r, a, b)
        /\ Joined(r, a, x) /\ Joined(r, x, b)
        /\ sysId[r][a].lp # sysId[r][b].lp

\* the delay of every point-to-point channel with an end on rank r (both
\* ends on rank r, when both is TRUE), each channel once
LinkDelays(r, both) ==
    LET keep == SelectSeq(Idx(Len(topo.chans)),
                    LAMBDA c : /\ topo.chans[c].p2p
                               /\ \E n \in NodesOf(topo) : Local(r, n) /\ OnChannel(c, n)
                               /\ both => \A n \in NodesOf(topo) :
                                              OnChannel(c, n) => Local(r, n))
    IN  [i \in 1 .. Len(keep) |-> topo.chans[keep[i]].delay]

\* C13: with MinLookahead 0, Partition sets minLookahead to the median of the
\* delays of the point-to-point links of the rank, each link counted once
\* (read as the links with an end on the rank, or as the links with both ends
\* on it), 0 if there is none; a non-zero MinLookahead is left as it is.
C13_MedianOfLinks ==
    \A r \in Ranks : Partitioned(r) =>
        IF attrMinLookahead = 0
        THEN \/ m_minLookahead[r] = MedianOf(LinkDelays(r, FALSE))
             \/ m_minLookahead[r] = MedianOf(LinkDelays(r, TRUE))
        ELSE m_minLookahead[r] = attrMinLookahead

\* C14: when a rank would get more than 65535 LPs, Partition ends in the
\* fatal error PartitionOverflow and does not return: a Partition that has
\* returned has made fewer than 2^16 LPs, every node of the rank has an LP id
\* of its own LP (not 0, the public LP, and not the id of an LP made for an
\* earlier node), and the rank bits of every node are those it had.
C14_NoWrappedLpId ==
    \A r \in Ranks : Partitioned(r) =>
        /\ numLPs[r] < LpField
        /\ \A n \in NodesOf(topo) :
              /\ sysId[r][n].rank = topo.rank[n]
              /\ Local(r, n) => sysId[r][n].lp \in (topo.ahead + 1) .. numLPs[r]
              /\ ~ Local(r, n) => sysId[r][n].lp = 0

\* the coordinator of rank r is outside ProcessOneRound (and its process has
\* not ended in a fatal error)
CoordinatorOutside(r) == pc[r] \notin {"round", "aborted"}

\* LP l of rank r is inside LogicalProcess::ProcessOneRound
Executing(r, l) == lpc[r][l] \in {"drain", "run"}

\* C15: in a round of the worker pool no LP is executed by two workers at the
\* same time, an LP executes only while a worker holds it, every LP of the
\* round is taken exactly once (never twice during the round; once the
\* round is over every dispatched LP was taken once, which is every LP when
\* the runtime dispatches them all, and no LP has an event left inside the
\* granted window, so none that was eligible was passed over), and while
\* the coordinator is outside ProcessOneRound (at the loop top, in the
\* all-gather, computing the grant) no worker holds an LP, the work queue is
\* empty and no LP executes.
C15_WorkerExclusion ==
    \A r \in Ranks :
        /\ \A w1, w2 \in Workers :
              w1 # w2 /\ ~ Idle(r, w1) => holder[r][w1] # holder[r][w2]
        /\ \A l \in LpIds :
              /\ taken[r][l] <= 1
              /\ Executing(r, l) => \E w \in Workers : holder[r][w] = l
        /\ CoordinatorOutside(r) =>
              /\ workQ[r] = << >>
              /\ \A w \in Workers : Idle(r, w)
              /\ \A l \in LpIds : ~ Executing(r, l)
              /\ \/ \A l \in LocalLps(r) : taken[r][l] = 0
                 \/ \A l \in LocalLps(r) :
                       /\ taken[r][l] = 1 \/ fanout = "next"
                       /\ lpc[r][l] = "idle"
                       /\ sched[r][l] # << >> =>
                             ~ Eligible(Head(sched[r][l]).ts, grants[r].cur)
              /\ (pc[r] \in {"top", "done"} /\ grants[r].cur # -1
                     /\ totRx[r] = totTx[r]) =>
                    \A l \in LocalLps(r) :
                        sched[r][l] # << >> =>
                            ~ Eligible(Head(sched[r][l]).ts, grants[r].cur)

\* C15, witness: two workers of a rank execute two LPs at the same time, one
\* of them inside an event, while a third LP waits in the work queue.
C15_Witness ==
    \E r \in Ranks :
        /\ pc[r] = "round"
        /\ workQ[r] # << >>
        /\ \A w \in Workers : ~ Idle(r, w)
        /\ \E w \in Workers : lpc[r][holder[r][w]] = "run"

\* the event of Stop(delay) has run on rank r: Stop() was called
StopCalled(r) == invoked[StopId(r)] # << >>

\* the time Stop(delay) was called for on rank r: now + delay, with now = 0
\* before Run
StopTime(r) ==
    LET i == CHOOSE i \in 1 .. Len(staged[r]) : staged[r][i].stop IN staged[r][i].ts

\* C16: once Stop() has been called on a rank (by the event of Stop(delay),
\* which runs on the calling LP, LP 0, at now + delay), the stop flag is set
\* on every LP of the rank, LP 0 and LPs 1..numLPs, and on none before; an
\* LP whose stop flag is set executes no further event; and Run returns on
\* every rank (or a fatal error ends the processes), whatever is pending.
\* The first two parts hold in every run of StopSpec; the last does not:
\* isFinished() being "scheduler empty and inbox empty", a rank that was
\* stopped with events pending never reports finished and Run stays in its
\* loop.
C16_StopEndsRun ==
    /\ [](\A r \in Ranks :
            /\ StopCalled(r) =>
                  /\ \A l \in LocalLps(r) : stopReq[r][l]
                  /\ now[r][0] = StopTime(r)
                  /\ invoked[StopId(r)] = << r >>
            /\ ~ StopCalled(r) => \A l \in LpIds : ~ stopReq[r][l])
    /\ [][\A r \in Ranks : \A l \in LpIds :
             stopReq[r][l] => eventCount'[r][l] = eventCount[r][l]]_vars
    /\ <>((\A r \in Ranks : Returned(r)) \/ (\A r \in Ranks : pc[r] = "aborted"))

\* the ids of the events that wait on rank r: in a scheduler, in an inbox,
\* in the transfer list of Partition or in the destroy queue
Waiting(r) ==
    { ev.id : ev \in UNION { Pending(r, l) : l \in LpIds } \cup SeqSet(transfer[r]) }
        \cup SeqSet(m_destroyEvents[r])

\* an id is expired (design document 4.7): its event was executed or
\* cancelled or, for a destroy event, is not in the destroy queue
Expired(id) ==
    \/ id \in cancelled
    \/ IF IsDestroyId(id)
       THEN \A r \in Ranks : id \notin SeqSet(m_destroyEvents[r])
       ELSE invoked[id] # << >>

\* the state of the events apart from the cancelled flags
EventState == << sched, inbox, transfer, now, eventCount, invoked, m_destroyEvents,
                 destroyLog, destroyReg, removed, pc, lpc >>

\* C17: Cancel on an id that is not expired sets the cancelled flag of its
\* event and changes nothing else (the event stays where it waits, unless a
\* Remove took it out of its scheduler before); Cancel
\* on an expired id changes nothing, so a flag is set only for an id that
\* was not expired, and never cleared.  The payload of a cancelled event is
\* not invoked afterwards, neither by an LP (round or migration) nor by
\* Destroy, and IsExpired is true for it from the cancel on.
C17_CancelledNeverInvoked ==
    /\ [][/\ cancelled \subseteq cancelled'
          /\ \A id \in cancelled' \ cancelled :
                /\ ~ Expired(id)
                /\ UNCHANGED EventState
                /\ id \in removed \/ \E r \in Ranks : id \in Waiting(r)
          /\ \A id \in cancelled :
                IF IsDestroyId(id)
                THEN \A r \in Ranks :
                        Len(SelectSeq(destroyLog'[r], LAMBDA x : x = id))
                            = Len(SelectSeq(destroyLog[r], LAMBDA x : x = id))
                ELSE invoked'[id] = invoked[id]]_vars
    /\ [](\A r \in Ranks : \A id \in cancelled \cap KnownIds(r) : HSI_IsExpired(r, id))

\* C17, witness: on a rank where Destroy has finished, a staged event that
\* was cancelled has left its scheduler without being invoked, a destroy
\* event that was cancelled has left the destroy queue without being
\* invoked, and another destroy event was invoked.
C17_Witness ==
    \E r \in Ranks :
        /\ pc[r] = "destroyed"
        /\ \E id \in cancelled :
              /\ ~ IsDestroyId(id)
              /\ id \in KnownIds(r)
              /\ id \notin Waiting(r)
              /\ invoked[id] = << >>
        /\ \E id \in cancelled \ removed :
              /\ IsDestroyId(id)
              /\ id \in KnownIds(r)
              /\ id \notin SeqSet(destroyLog[r])
        /\ destroyLog[r] # << >>

\* C20: no destroy event is invoked before Destroy is called; at any time the
\* destroy events invoked so far, followed by those still in the queue that
\* are not cancelled, are the events registered by ScheduleDestroy that were
\* neither cancelled nor removed, in the order of their ScheduleDestroy
\* calls (so each is invoked once, in FIFO order, also one registered while
\* the queue is drained); when Destroy has returned the queue is empty.
C20_DestroyFifo ==
    \A r \in Ranks :
        LET live(id) == id \notin cancelled
            due(id) == id \notin cancelled /\ id \notin removed
        IN  /\ pc[r] \notin {"destroying", "destroyed"} => destroyLog[r] = << >>
            /\ destroyLog[r] \o SelectSeq(m_destroyEvents[r], live)
                  = SelectSeq(destroyReg[r], due)
            /\ pc[r] = "destroyed" => m_destroyEvents[r] = << >>

\* C20, witness: Destroy has returned on a rank that executed events in
\* rounds; it invoked two destroy events, the first registered first.
C20_Witness ==
    \E r \in Ranks :
        /\ pc[r] = "destroyed"
        /\ SetSum(eventCount[r], LpIds) > 0
        /\ destroyLog[r] = << DestroyId(r, 1), DestroyId(r, 2) >>

\* the events of staged[r] with timestamp 0, in scheduler order, each with
\* the LP that owns its context: LP 0 without context, the LP Partition
\* labelled the node with for a node of the rank, and `elsewhere' for a node
\* of another rank (no LP of this rank owns it)
TimeZero(r, elsewhere) ==
    LET z == SelectSeq(staged[r], LAMBDA ev : ev.ts = 0)
    IN  [i \in 1 .. Len(z) |->
            [id |-> z[i].id,
             lp |-> IF z[i].ctx = NoContext THEN 0
                    ELSE IF topo.rank[z[i].ctx] = r THEN sysId[r][z[i].ctx].lp
                    ELSE elsewhere]]

\* the ids of the events the scripts scheduled before Run
StagedIds == UNION { { staged[r][i].id : i \in 1 .. Len(staged[r]) } : r \in Ranks }

\* Partition invokes the staged events with timestamp 0 itself, one after
\* the other in their (timestamp, sequence) order, each on the LP that owns
\* its context (TimeZero), before any round of the rank; until Run enters
\* its loop nothing else is invoked on the rank, and an event scheduled by
\* such an invocation is not invoked but waits in a scheduler, an inbox or a
\* message.
MigrationInvokes(elsewhere) ==
    /\ (\A q \in Ranks : pc[q] \in {"start", "migrate", "top", "gather"}
                              /\ grants[q].cur = -1) =>
          \A id \in CreatedIds \ StagedIds :
              /\ invoked[id] = << >>
              /\ \/ \E q \in Ranks : id \in Waiting(q)
                 \/ \E m \in InFlight : m.id = id
    /\ \A r \in Ranks :
        /\ pc[r] = "start" => migLog[r] = << >>
        /\ pc[r] # "start" =>
              /\ Len(migLog[r]) <= Len(TimeZero(r, elsewhere))
              /\ migLog[r] = SubSeq(TimeZero(r, elsewhere), 1, Len(migLog[r]))
        /\ pc[r] \in {"top", "gather", "decide", "round", "done"} =>
              migLog[r] = TimeZero(r, elsewhere)
        /\ pc[r] \in {"start", "migrate"} =>
              /\ grants[r].cur = -1 /\ iterExec[r] = 0
              /\ \A l \in LpIds : lpc[r][l] = "idle"
              /\ \A id \in EventIds :
                    r \in SeqSet(invoked[id]) =>
                        \E i \in 1 .. Len(migLog[r]) : migLog[r][i].id = id

\* C18 as stated: Partition invokes the staged events with timestamp 0 in
\* their order before any round, each on the LP owning its context node, the
\* staging LP 0 only when the context is NO_CONTEXT; an event they schedule
\* is not invoked inline.
C18_MigrationInvokesOnOwner == MigrationInvokes(NoLp)

\* C18, amended: Partition invokes the staged events with timestamp 0 in
\* their order before any round, each on the LP owning its context node when
\* that node is of the rank, and on the staging LP 0 when the context is
\* NO_CONTEXT or a node of another rank; an event they schedule is not
\* invoked inline but waits in a scheduler, an inbox or a message.
C18_MigrationInvokesInOrder == MigrationInvokes(0)

\* C18, witness: Partition is in its transfer loop and has invoked two
\* events, the first on the LP of a node of the rank and the second, whose
\* context is a node of another rank, on LP 0, and an event scheduled by one
\* of them waits.
C18_Witness ==
    \E r \in Ranks :
        /\ pc[r] = "migrate"
        /\ Len(migLog[r]) = 2
        /\ migLog[r][1].lp # 0 /\ migLog[r][2].lp = 0
        /\ \E i \in 1 .. Len(staged[r]) :
              /\ staged[r][i].id = migLog[r][2].id
              /\ staged[r][i].ctx # NoContext
              /\ topo.rank[staged[r][i].ctx] # r
        /\ CreatedIds \ StagedIds # {}

\* The transfer loop of Partition has ended on rank r (lines 501-522, before
\* RunBefore) and every event of staged[r] was handled once: one with
\* timestamp 0 was invoked, once, and waits nowhere; any other was not
\* invoked and waits once, with its timestamp, on LP 0 if it has no context
\* and else on the LP in the system id of its context node, and nowhere
\* else.  LP 0 holds no event with the context of a node (of a node of the
\* rank, when ownNodes is TRUE).
MigrationDone(r, ownNodes) ==
    LET home(ev) == IF ev.ctx = NoContext THEN 0 ELSE sysId[r][ev.ctx].lp
        count(l, ev) == Len(SelectSeq(sched[r][l], LAMBDA x : x = ev))
                            + Len(SelectSeq(inbox[r][l], LAMBDA x : x.ev = ev))
    IN  (pc[r] = "migrate" /\ transfer[r] = << >>) =>
            /\ \A i \in 1 .. Len(staged[r]) :
                  LET ev == staged[r][i]
                  IN  IF ev.ts = 0
                      THEN /\ invoked[ev.id] = << r >>
                           /\ Len(SelectSeq(migLog[r], LAMBDA x : x.id = ev.id)) = 1
                           /\ ev.id \notin Waiting(r)
                      ELSE /\ invoked[ev.id] = << >>
                           /\ \A l \in LpIds :
                                 count(l, ev) = IF l = home(ev) THEN 1 ELSE 0
            /\ \A ev \in Pending(r, 0) :
                  \/ ev.ctx = NoContext
                  \/ ownNodes /\ topo.rank[ev.ctx] # r

\* C19 as stated: the migration handles every staged event exactly once and
\* afterwards LP 0 holds no event that has a node context.
C19_MigrationExact == \A r \in Ranks : MigrationDone(r, FALSE)

\* C19, amended: the migration handles every staged event exactly once; an
\* event with the context of a node of another rank is routed to LP 0 (the
\* LP id in that node's system id is 0), so afterwards LP 0 holds no event
\* with the context of a node of its own rank.
C19_MigrationExactOwnNodes == \A r \in Ranks : MigrationDone(r, TRUE)

\* C19, witness: the transfer loop has ended on a rank that invoked an
\* event, handed one to the inbox of a node's LP and kept on LP 0 one
\* without context and one with the context of a node of another rank.
C19_Witness ==
    \E r \in Ranks :
        /\ pc[r] = "migrate" /\ transfer[r] = << >>
        /\ Len(staged[r]) = MaxMigrated
        /\ migLog[r] # << >>
        /\ \E l \in LocalLps(r) : l # 0 /\ inbox[r][l] # << >>
        /\ \E ev \in Pending(r, 0) : ev.ctx = NoContext \/ topo.rank[ev.ctx] # r

\* C21: for a destroy id, IsExpired is false exactly when the event is in
\* the destroy queue and not cancelled; an id is in the queue at most once;
\* a Remove of an id of the queue erases that one entry and keeps the others
\* in their order, after which the id is expired; a Remove of an id that is
\* not in the queue, and a second Remove, leave the queue as it is; an id
\* that leaves the queue (Remove, Destroy) never returns to it.
C21_DestroyIdExpiry ==
    /\ [](\A r \in Ranks : \A id \in DestroyIds(r) :
            LET q == m_destroyEvents[r]
            IN  /\ ~ HSI_IsExpired(r, id) <=> (id \in SeqSet(q) /\ id \notin cancelled)
                /\ Cardinality({ i \in 1 .. Len(q) : q[i] = id }) <= 1
                /\ id \notin SeqSet(q) => EraseFirst(q, id) = q
                /\ EraseFirst(EraseFirst(q, id), id) = EraseFirst(q, id)
                /\ id \in removed => id \notin SeqSet(q)
                /\ id \in SeqSet(destroyLog[r]) => HSI_IsExpired(r, id))
    /\ [][\A r \in Ranks : \A id \in DestroyIds(r) :
            LET q == m_destroyEvents[r]
            IN  /\ (removed' # removed /\ id \in removed' \ removed) =>
                      /\ \E i \in 1 .. Len(q) :
                            /\ q[i] = id
                            /\ m_destroyEvents'[r] =
                                   SubSeq(q, 1, i - 1) \o SubSeq(q, i + 1, Len(q))
                      /\ HSI_IsExpired(r, id)'
                      /\ UNCHANGED << cancelled, destroyLog, destroyReg >>
                /\ (id \in SeqSet(q) /\ id \notin SeqSet(m_destroyEvents'[r])) =>
                      HSI_IsExpired(r, id)'
                /\ (HSI_IsExpired(r, id) /\ id \in SeqSet(destroyReg[r])) =>
                      HSI_IsExpired(r, id)']_vars

\* C21, witness: a destroy event was removed from a queue of two, the
\* other is still queued and cancelled, so both are expired.
C21_Witness ==
    \E r \in Ranks :
        /\ Len(destroyReg[r]) = MaxDestroy
        /\ Len(m_destroyEvents[r]) = 1
        /\ m_destroyEvents[r][1] \in cancelled
        /\ destroyReg[r][1] \in removed
        /\ \A id \in DestroyIds(r) : HSI_IsExpired(r, id)

\* C22: no two threads of a process are inside the destroy queue at the
\* same time (checked for the accesses that conflict: one of the two is
\* the write of ScheduleDestroy or of Remove).
C22_NoConcurrentQueueAccess ==
    \A r \in Ranks : \A w1, w2 \in Workers :
        (/\ access[r][w1].in
         /\ access[r][w2].in
         /\ access[r][w1].op \in {"ScheduleDestroy", "Remove"}) => w1 = w2

\* C23: all ranks derive the same grant and the same m_globalFinished in
\* every iteration: two ranks that wait to evaluate the all-gather hold the
\* same array; a rank that has evaluated it holds what the array of a rank
\* that has not yet gives; two ranks that have both evaluated it hold the
\* same grants, totals and m_globalFinished.  So the ranks leave the loop
\* in the same iteration (when one has left, every other has left or is
\* about to evaluate the same array, never back in an all-gather), and
\* while a rank waits in an all-gather no other rank has left the loop or
\* is about to: each is in the collective, on its way to it, or aborted.
C23_RanksAgree ==
    /\ (\A r, q \in Ranks :
            /\ (pc[r] = "decide" /\ pc[q] = "decide") => m_pLBTS[r] = m_pLBTS[q]
            /\ (pc[r] # "decide" /\ pc[q] = "decide") =>
                  /\ grants[r].cur = SmallestOf(m_pLBTS[q])
                  /\ m_smallestTime[r] = SmallestOf(m_pLBTS[q])
                  /\ totRx[r] = TotRxOf(m_pLBTS[q])
                  /\ totTx[r] = TotTxOf(m_pLBTS[q])
                  /\ m_globalFinished[r] = GlobalFinishedOf(m_pLBTS[q])
            /\ (pc[r] # "decide" /\ pc[q] # "decide") =>
                  /\ grants[r] = grants[q]
                  /\ m_smallestTime[r] = m_smallestTime[q]
                  /\ totRx[r] = totRx[q] /\ totTx[r] = totTx[q]
                  /\ m_globalFinished[r] = m_globalFinished[q]
            /\ pc[r] = "done" =>
                  /\ m_globalFinished[r]
                  /\ pc[q] \in {"done", "decide"}
            /\ (pc[r] \in {"round", "top", "gather"} /\ grants[r].cur # -1) =>
                  ~ m_globalFinished[r]
            /\ pc[r] = "gather" =>
                  /\ pc[q] # "done"
                  /\ pc[q] = "decide" => ~ GlobalFinishedOf(m_pLBTS[q]))

\* C23, witness: in one iteration a rank that is locally finished skipped
\* the round and waits in the next all-gather while another rank, with the
\* same grant, is still executing its round.
C23_Witness ==
    \E r, q \in Ranks :
        /\ pc[r] = "round" /\ \E l \in LpIds : lpc[r][l] = "run"
        /\ pc[q] = "gather" /\ iterExec[q] = 0
        /\ IsLocalFinished(q, Queues(q))
        /\ grants[r].prev # -1
        /\ grants[r] = grants[q]

=============================================================================
